---- MODULE Spec2Model ----
(***************************************************************************)
(* Model of the schema augmentation engine of neo4j-graphql-js             *)
(* (src/augment.js).  A type map is a name-keyed, insertion-ordered        *)
(* collection of parsed type definitions.  augmentTypeMap runs a fixed     *)
(* pipeline of stages over it; each stage is an operator over the type     *)
(* map and each action applies one stage.                                  *)
(***************************************************************************)
EXTENDS Integers, Sequences, FiniteSets, TLC

VARIABLES
    input,      \* the parameters the input schema and configuration were built from
    typeMap0,   \* the type map handed to the first call of augmentTypeMap
    typeMap,    \* the type map being augmented: [keys, defs]
    config,     \* the configuration (after excludeIgnoredTypes once a run has begun)
    entries,    \* the Object.entries snapshot the per-type loop iterates
    held,       \* entries whose object was displaced from the map by an overwrite
    idx,        \* position of the per-type loop in entries
    pc,         \* the stage of augmentTypeMap that runs next
    err,        \* "none", or the error that aborted the run
    call,       \* which call of augmentTypeMap runs: "first" on the input, "again" on
                \* the result of the first, "twin" on the input in the other notation
    first,      \* the result of the first call (once a later call has begun)
    resolvers0, \* the resolver map the caller handed to augmentResolvers
    resolvers   \* the resolver map augmentResolvers returned

vars ==
    <<input, typeMap0, typeMap, config, entries, held, idx, pc, err, call, first,
      resolvers0, resolvers>>

(***************************************************************************)
(* Bounds of the model.                                                    *)
(***************************************************************************)
\* the deepest nesting of list / non-null wrappers around a temporal leaf type
MaxWrap == 3

(***************************************************************************)
(* AST values.                                                             *)
(*   type reference : [name, wrap]  wrap lists the wrapper layers,         *)
(*                    outermost first ("List" / "NonNull")                 *)
(*   argument       : [name, type]                                         *)
(*   directive      : [name, args]   args maps argument name to value      *)
(*   field          : [name, type, arguments, directives]                  *)
(*   definition     : [kind, def, name, fields, directives, values]        *)
(* graphql's parse() returns a Document; where the code stores that        *)
(* Document itself under a name, kind is "Document" and def is the kind of *)
(* the definition it wraps (a Document has no name and no fields of its    *)
(* own).                                                                   *)
(***************************************************************************)
NoArgs == [x \in {} |-> ""]

Named(n) == [name |-> n, wrap |-> <<>>]
ListOf(t) == [t EXCEPT !.wrap = <<"List">> \o @]
NonNullOf(t) == [t EXCEPT !.wrap = <<"NonNull">> \o @]

Arg(n, t) == [name |-> n, type |-> t]
Dir(n, a) == [name |-> n, args |-> a]
Field(n, t, as, ds) == [name |-> n, type |-> t, arguments |-> as, directives |-> ds]
Plain(n, t) == Field(n, t, <<>>, <<>>)

Def(k, n, fs, ds) ==
    [kind |-> k, def |-> k, name |-> n, fields |-> fs, directives |-> ds, values |-> <<>>]
EnumDef(n, vs) ==
    [kind |-> "EnumTypeDefinition", def |-> "EnumTypeDefinition", name |-> n,
     fields |-> <<>>, directives |-> <<>>, values |-> vs]
Doc(k, n, fs, ds) ==
    [kind |-> "Document", def |-> k, name |-> n, fields |-> fs, directives |-> ds,
     values |-> <<>>]
Undefined == Def("undefined", "", <<>>, <<>>)

Range(s) == {s[i] : i \in DOMAIN s}
Names(s) == [i \in DOMAIN s |-> s[i].name]
IndexOf(s, n) ==
    IF \E i \in DOMAIN s : s[i].name = n
    THEN CHOOSE i \in DOMAIN s : s[i].name = n /\ \A j \in 1..(i - 1) : s[j].name # n
    ELSE 0
Count(s, n) == Cardinality({i \in DOMAIN s : s[i].name = n})

\* the type map: keys in insertion order, defs by key
Has(tm, n) == n \in DOMAIN tm.defs
Lookup(tm, n) == IF Has(tm, n) THEN tm.defs[n] ELSE Undefined
Put(tm, n, d) ==
    IF Has(tm, n)
    THEN [tm EXCEPT !.defs[n] = d]
    ELSE [keys |-> Append(tm.keys, n), defs |-> (n :> d) @@ tm.defs]
EmptyMap == [keys |-> <<>>, defs |-> [x \in {} |-> Undefined]]

(***************************************************************************)
(* Helpers of ./utils, which is not part of the supplied source: modelled  *)
(* from the specification and from the way augment.js calls them.          *)
(***************************************************************************)
getNamedType(field) == field.type.name
isListType(field) == \E i \in DOMAIN field.type.wrap : field.type.wrap[i] = "List"
isNonNullType(field) == Len(field.type.wrap) > 0 /\ field.type.wrap[1] = "NonNull"
isKind(astNode, k) == astNode.kind = k
hasDirective(ds, n) == \E i \in DOMAIN ds : ds[i].name = n
getDirective(ds, n) == ds[IndexOf(ds, n)]
getFieldDirective(field, n) == hasDirective(field.directives, n)
\* a Document (and an absent type) has no directives and no fields of its own
directivesOf(astNode) ==
    IF astNode.kind \in {"Document", "undefined"} THEN <<>> ELSE astNode.directives
fieldsOf(astNode) ==
    IF astNode.kind \in {"Document", "undefined"} THEN <<>> ELSE astNode.fields
getTypeDirective(astNode, n) == hasDirective(directivesOf(astNode), n)
hasField(astNode, n) == \E i \in DOMAIN fieldsOf(astNode) : fieldsOf(astNode)[i].name = n
isBasicScalar(n) == n \in {"ID", "String", "Float", "Int", "Boolean"}
TemporalKinds == <<"Time", "Date", "DateTime", "LocalTime", "LocalDateTime">>
isTemporalType(n) == n \in {"_Neo4j" \o TemporalKinds[i] : i \in DOMAIN TemporalKinds}

\* a node type: an object type that is neither a root operation type nor a
\* relationship type (no relation marker, no from / to field)
isNodeType(astNode) ==
    /\ astNode.kind = "ObjectTypeDefinition"
    /\ astNode.name \notin {"Query", "Mutation"}
    /\ ~getTypeDirective(astNode, "relation")
    /\ ~hasField(astNode, "from")
    /\ ~hasField(astNode, "to")

\* the primary key: the first required, non-list, ID-typed field that is not ignored
isPrimaryKeyField(f) ==
    /\ ~getFieldDirective(f, "neo4j_ignore")
    /\ f.type.name = "ID"
    /\ isNonNullType(f)
    /\ ~isListType(f)
hasPrimaryKey(astNode) == \E i \in DOMAIN astNode.fields : isPrimaryKeyField(astNode.fields[i])
getPrimaryKey(astNode) ==
    astNode.fields[CHOOSE i \in DOMAIN astNode.fields :
        /\ isPrimaryKeyField(astNode.fields[i])
        /\ \A j \in 1..(i - 1) : ~isPrimaryKeyField(astNode.fields[j])]

\* createOperationMap: the fields of a root type by name (empty when the type is absent)
createOperationMap(tm, root) == Range(Names(fieldsOf(Lookup(tm, root))))

\* configuration: each of query / mutation is a boolean or an exclusion set
CfgBool(b) == [isBool |-> TRUE, bool |-> b, exclude |-> {}]
CfgExclude(s) == [isBool |-> FALSE, bool |-> TRUE, exclude |-> s]
getExcludedTypes(cfg, rootType) == IF cfg[rootType].isBool THEN {} ELSE cfg[rootType].exclude

\* excludeIgnoredTypes: a type carrying the ignore marker is excluded from both
\* operations; an operation that is not switched off becomes an exclusion set
excludeIgnoredTypes(tm, cfg) ==
    LET ignored == {n \in Range(tm.keys) : hasDirective(tm.defs[n].directives, "neo4j_ignore")}
        conv(rootType) ==
            IF cfg[rootType].isBool /\ ~cfg[rootType].bool
            THEN cfg[rootType]
            ELSE CfgExclude(getExcludedTypes(cfg, rootType) \cup ignored)
    IN  [cfg EXCEPT !.query = conv("query"), !.mutation = conv("mutation")]

(***************************************************************************)
(* src/augment.js: policy predicates.                                      *)
(***************************************************************************)
\* shouldAugmentType without the lookup in the exclusion set
shouldAugmentType_ignoresExclusions(cfg, rootType, type) ==
    IF cfg[rootType].isBool THEN cfg[rootType].bool ELSE type # ""

shouldAugmentType(cfg, rootType, type) ==
    IF cfg[rootType].isBool
    THEN cfg[rootType].bool
    ELSE IF type # "" THEN type \notin getExcludedTypes(cfg, rootType) ELSE FALSE

shouldAugmentRelationField(cfg, rootType, fromName, toName) ==
    shouldAugmentType(cfg, rootType, fromName) /\ shouldAugmentType(cfg, rootType, toName)

fieldIsNotIgnored(field) == ~getFieldDirective(field, "neo4j_ignore")

isNotSystemField(n) == n # "_id" /\ n # "to" /\ n # "from"

(***************************************************************************)
(* Stage: seeding of the root operation types.                             *)
(***************************************************************************)
possiblyAddObjectType(tm, n) ==
    IF ~Has(tm, n) THEN Put(tm, n, Def("ObjectTypeDefinition", n, <<>>, <<>>)) ELSE tm

hasNonExcludedNodeType(tm, rootType, cfg) ==
    \E i \in DOMAIN tm.keys :
        /\ isNodeType(tm.defs[tm.keys[i]])
        /\ tm.defs[tm.keys[i]].name # ""
        /\ shouldAugmentType(cfg, rootType, tm.defs[tm.keys[i]].name)

initializeOperationTypes(tm, cfg) ==
    LET withQuery ==
            IF hasNonExcludedNodeType(tm, "query", cfg)
            THEN possiblyAddObjectType(tm, "Query") ELSE tm
    IN  IF hasNonExcludedNodeType(withQuery, "mutation", cfg)
        THEN possiblyAddObjectType(withQuery, "Mutation") ELSE withQuery

(***************************************************************************)
(* Stage: normalisation of the relationship-type marker.                   *)
(***************************************************************************)
\* String.prototype.toUpperCase on one character
UpperOf ==
    [a |-> "A", b |-> "B", c |-> "C", d |-> "D", e |-> "E", f |-> "F", g |-> "G",
     h |-> "H", i |-> "I", j |-> "J", k |-> "K", l |-> "L", m |-> "M", n |-> "N",
     o |-> "O", p |-> "P", q |-> "Q", r |-> "R", s |-> "S", t |-> "T", u |-> "U",
     v |-> "V", w |-> "W", x |-> "X", y |-> "Y", z |-> "Z"]
toUpperCase(c) == IF c \in DOMAIN UpperOf THEN UpperOf[c] ELSE c

\* the characters of the type names whose default relationship name is derived
CharsOf(n) ==
    CASE n = "ActedIn" -> <<"A", "c", "t", "e", "d", "I", "n">>
      [] n = "movies" -> <<"m", "o", "v", "i", "e", "s">>
      [] n = "actors" -> <<"a", "c", "t", "o", "r", "s">>
      [] n = "Movies" -> <<"M", "o", "v", "i", "e", "s">>
      [] n = "R" -> <<"R">>
      [] n = "DB" -> <<"D", "B">>
      [] n = "Rated2" -> <<"R", "a", "t", "e", "d", "2">>
      [] n = "Acted_In" -> <<"A", "c", "t", "e", "d", "_", "I", "n">>
      [] OTHER -> <<>>

RECURSIVE JoinChars(_)
JoinChars(cs) == IF cs = <<>> THEN "" ELSE Head(cs) \o JoinChars(Tail(cs))

\* one step of the reduce of transformRelationName: position t (from 0), character ch
relationNameChar(t, ch) ==
    IF ch = toUpperCase(ch) /\ t > 0 THEN "_" \o toUpperCase(ch) ELSE toUpperCase(ch)

transformRelationNameChars(cs) == JoinChars([i \in DOMAIN cs |-> relationNameChar(i - 1, cs[i])])

transformRelationName(astNode) == transformRelationNameChars(CharsOf(astNode.name))

\* addRelationTypeDirectives without its second throw
oneSidedError_missesFromOnly(astNode) ==
    IF astNode.kind # "ObjectTypeDefinition" THEN "none"
    ELSE IF hasField(astNode, "to") /\ ~hasField(astNode, "from") THEN "to without from"
    ELSE "none"

\* the error addRelationTypeDirectives throws at one type, "none" if it throws none
oneSidedError(astNode) ==
    IF astNode.kind # "ObjectTypeDefinition" THEN "none"
    ELSE IF hasField(astNode, "to") /\ ~hasField(astNode, "from") THEN "to without from"
    ELSE IF hasField(astNode, "from") /\ ~hasField(astNode, "to") THEN "from without to"
    ELSE "none"

relationTypeError(tm) ==
    IF \E i \in DOMAIN tm.keys : oneSidedError(tm.defs[tm.keys[i]]) # "none"
    THEN oneSidedError(tm.defs[tm.keys[
            CHOOSE i \in DOMAIN tm.keys :
                /\ oneSidedError(tm.defs[tm.keys[i]]) # "none"
                /\ \A j \in 1..(i - 1) : oneSidedError(tm.defs[tm.keys[j]]) = "none"]])
    ELSE "none"

\* addRelationTypeDirectives that trusts the endpoints a user's marker gives
normalizedRelationDirective_keepsUserEnds(astNode) ==
    LET at == IndexOf(astNode.directives, "relation")
        given == IF at > 0 THEN astNode.directives[at].args ELSE NoArgs
        fromTypeName ==
            IF "from" \in DOMAIN given THEN given.from
            ELSE astNode.fields[IndexOf(astNode.fields, "from")].type.name
        toTypeName ==
            IF "to" \in DOMAIN given THEN given.to
            ELSE astNode.fields[IndexOf(astNode.fields, "to")].type.name
        relationName ==
            IF "name" \in DOMAIN given THEN given.name ELSE transformRelationName(astNode)
        marker == Dir("relation",
                      [name |-> relationName, from |-> fromTypeName, to |-> toTypeName])
    IN  IF at > 0
        THEN [astNode EXCEPT !.directives[at] = marker]
        ELSE [astNode EXCEPT !.directives = Append(@, marker)]

\* the marker written on one relationship type
normalizedRelationDirective(astNode) ==
    LET fromTypeName == astNode.fields[IndexOf(astNode.fields, "from")].type.name
        toTypeName == astNode.fields[IndexOf(astNode.fields, "to")].type.name
        at == IndexOf(astNode.directives, "relation")
        relationName ==
            IF at > 0 /\ "name" \in DOMAIN astNode.directives[at].args
            THEN astNode.directives[at].args.name
            ELSE transformRelationName(astNode)
        marker == Dir("relation",
                      [name |-> relationName, from |-> fromTypeName, to |-> toTypeName])
    IN  IF at > 0
        THEN [astNode EXCEPT !.directives[at] = marker]
        ELSE [astNode EXCEPT !.directives = Append(@, marker)]

addRelationTypeDirectives(tm) ==
    [tm EXCEPT !.defs =
        [n \in DOMAIN tm.defs |->
            IF /\ tm.defs[n].kind = "ObjectTypeDefinition"
               /\ hasField(tm.defs[n], "from")
               /\ hasField(tm.defs[n], "to")
            THEN normalizedRelationDirective(tm.defs[n])
            ELSE tm.defs[n]]]

(***************************************************************************)
(* Stage: temporal types.                                                  *)
(***************************************************************************)
TemporalKeys == <<"time", "date", "datetime", "localtime", "localdatetime">>

\* config.temporal: absent, a boolean, or an object giving some of the five keys
TemporalAbsent == [kind |-> "undefined", bool |-> TRUE, given |-> [x \in {} |-> TRUE]]
TemporalBool(b) == [kind |-> "boolean", bool |-> b, given |-> [x \in {} |-> TRUE]]
TemporalObject(g) == [kind |-> "object", bool |-> TRUE, given |-> g]

decideTemporalConfig(cfg) ==
    LET provided == cfg.temporal
    IN  [k \in Range(TemporalKeys) |->
            IF provided.kind = "boolean" THEN provided.bool
            ELSE IF provided.kind = "object" /\ k \in DOMAIN provided.given
                 THEN provided.given[k]
                 ELSE TRUE]

IntFields(ns) == [i \in DOMAIN ns |-> Plain(ns[i], Named("Int"))]
StrFields(ns) == [i \in DOMAIN ns |-> Plain(ns[i], Named("String"))]
DateParts == <<"year", "month", "day">>
TimeParts == <<"hour", "minute", "second", "millisecond", "microsecond", "nanosecond">>
TimePartsInput == <<"hour", "minute", "second", "nanosecond", "millisecond", "microsecond">>

\* the fields of the structured type of a temporal kind (output form or input twin)
temporalFields(kind, isInputTwin) ==
    CASE kind = "Time" ->
            IntFields(IF isInputTwin THEN TimePartsInput ELSE TimeParts)
                \o StrFields(<<"timezone", "formatted">>)
      [] kind = "Date" -> IntFields(DateParts) \o StrFields(<<"formatted">>)
      [] kind = "DateTime" ->
            IntFields(DateParts \o TimeParts) \o StrFields(<<"timezone", "formatted">>)
      [] kind = "LocalTime" -> IntFields(TimeParts) \o StrFields(<<"formatted">>)
      [] kind = "LocalDateTime" ->
            IntFields(DateParts \o TimeParts) \o StrFields(<<"formatted">>)

temporalOutputType(kind) ==
    Def("ObjectTypeDefinition", "_Neo4j" \o kind, temporalFields(kind, FALSE), <<>>)
temporalInputType(kind) ==
    Def("InputObjectTypeDefinition", "_Neo4j" \o kind \o "Input",
        temporalFields(kind, TRUE), <<>>)

\* the two assignments temporalTypes makes for one enabled kind
addTemporalKind(tm, kind) ==
    Put(Put(tm, "_Neo4j" \o kind, temporalOutputType(kind)),
        "_Neo4j" \o kind \o "Input", temporalInputType(kind))

RECURSIVE temporalTypesFrom(_, _, _)
temporalTypesFrom(tm, types, i) ==
    IF i > Len(TemporalKinds) THEN tm
    ELSE temporalTypesFrom(
            IF types[TemporalKeys[i]] THEN addTemporalKind(tm, TemporalKinds[i]) ELSE tm,
            types, i + 1)

temporalTypes(tm, types) == temporalTypesFrom(tm, types, 1)

\* the rewrite of a named (leaf) type
transformNamedTemporal(n, types, isArgument) ==
    IF \E i \in DOMAIN TemporalKinds : n = TemporalKinds[i] /\ types[TemporalKeys[i]]
    THEN "_Neo4j" \o n \o (IF isArgument THEN "Input" ELSE "")
    ELSE n

\* transformTemporalTypeName that leaves a wrapped type as it is
transformTemporalTypeName_skipsWrapped(type, types, isArgument) ==
    IF type.wrap # <<>>
    THEN type
    ELSE [name |-> transformNamedTemporal(type.name, types, isArgument), wrap |-> <<>>]

\* a wrapper layer recurses into the wrapped type without passing isArgument on
RECURSIVE transformTemporalTypeName(_, _, _)
transformTemporalTypeName(type, types, isArgument) ==
    IF type.wrap # <<>>
    THEN LET inner == transformTemporalTypeName(
                        [name |-> type.name, wrap |-> Tail(type.wrap)], types, FALSE)
         IN  [name |-> inner.name, wrap |-> <<Head(type.wrap)>> \o inner.wrap]
    ELSE [name |-> transformNamedTemporal(type.name, types, isArgument), wrap |-> <<>>]

transformTemporalFieldArgs(field, types) ==
    [field EXCEPT !.arguments =
        [i \in DOMAIN field.arguments |->
            [field.arguments[i] EXCEPT !.type = transformTemporalTypeName(@, types, TRUE)]]]

transformTemporalField(field, types) ==
    transformTemporalFieldArgs(
        [field EXCEPT !.type = transformTemporalTypeName(@, types, FALSE)], types)

transformTemporalFields(tm, types) ==
    [tm EXCEPT !.defs =
        [n \in DOMAIN tm.defs |->
            IF tm.defs[n].kind = "ObjectTypeDefinition" /\ ~isTemporalType(n)
            THEN [tm.defs[n] EXCEPT !.fields =
                    [i \in DOMAIN tm.defs[n].fields |->
                        transformTemporalField(tm.defs[n].fields[i], types)]]
            ELSE tm.defs[n]]]

addTemporalTypes(tm, cfg) ==
    transformTemporalFields(temporalTypes(tm, decideTemporalConfig(cfg)),
                            decideTemporalConfig(cfg))

(***************************************************************************)
(* Per-type stages: node fields, query field, ordering enum.               *)
(***************************************************************************)
RECURSIVE FlattenFrom(_, _)
FlattenFrom(ss, i) == IF i > Len(ss) THEN <<>> ELSE ss[i] \o FlattenFrom(ss, i + 1)
Flatten(ss) == FlattenFrom(ss, 1)

hasArgument(args, n) == \E i \in DOMAIN args : args[i].name = n

possiblyAddArgument(args, fieldName, fieldType) ==
    IF ~hasArgument(args, fieldName)
    THEN Append(args, Arg(fieldName, Named(fieldType)))
    ELSE args

\* the existence check looks for an argument named after the value type
possiblyAddOrderingArgument(args, fieldName) ==
    IF ~hasArgument(args, fieldName)
    THEN Append(args, Arg("orderBy", ListOf(Named("_" \o fieldName \o "Ordering"))))
    ELSE args

\* first / offset / orderBy for a list field, filter unless the field is computed
paginationArguments(args, field, valueTypeName) ==
    LET paged ==
            IF isListType(field)
            THEN possiblyAddOrderingArgument(
                    possiblyAddArgument(possiblyAddArgument(args, "first", "Int"),
                                        "offset", "Int"),
                    valueTypeName)
            ELSE args
    IN  IF ~getFieldDirective(field, "cypher")
        THEN possiblyAddArgument(paged, "filter", "_" \o valueTypeName \o "Filter")
        ELSE paged

NodeIdField == Field("_id", Named("String"), <<>>, <<>>)

addOrReplaceNodeIdField_appendsAlways(astNode) ==
    Append(astNode.fields, NodeIdField)

addOrReplaceNodeIdField(astNode) ==
    LET index == IndexOf(astNode.fields, "_id")
    IN  IF index > 0
        THEN IF fieldIsNotIgnored(astNode.fields[index])
             THEN [astNode.fields EXCEPT ![index] = NodeIdField]
             ELSE astNode.fields
        ELSE Append(astNode.fields, NodeIdField)

possiblyAddTypeFieldArguments(astNode, tm, cfg) ==
    [i \in DOMAIN astNode.fields |->
        LET field == astNode.fields[i]
            relationTypeName == getNamedType(field)
        IN  IF /\ fieldIsNotIgnored(field)
               /\ shouldAugmentType(cfg, "query", relationTypeName)
               /\ isNodeType(Lookup(tm, relationTypeName))
               /\ (getFieldDirective(field, "relation") \/ getFieldDirective(field, "cypher"))
            THEN [field EXCEPT !.arguments = paginationArguments(@, field, relationTypeName)]
            ELSE field]

augmentType(astNode, tm, cfg) ==
    IF isNodeType(astNode)
    THEN LET withId ==
                IF shouldAugmentType(cfg, "query", astNode.name)
                THEN [astNode EXCEPT !.fields = addOrReplaceNodeIdField(astNode)]
                ELSE astNode
         IN  [withId EXCEPT !.fields = possiblyAddTypeFieldArguments(withId, tm, cfg)]
    ELSE astNode

pushField(tm, rootType, field) == [tm EXCEPT !.defs[rootType].fields = Append(@, field)]

createQueryArguments(astNode, tm) ==
    Flatten([i \in DOMAIN astNode.fields |->
        LET t == astNode.fields[i]
            valueTypeName == getNamedType(t)
            valueKind == Lookup(tm, valueTypeName).kind
        IN  IF ~fieldIsNotIgnored(t) THEN <<>>
            ELSE IF \/ isBasicScalar(valueTypeName)
                    \/ valueKind = "EnumTypeDefinition"
                    \/ valueKind = "ScalarTypeDefinition"
                 THEN <<Arg(t.name, Named(valueTypeName))>>
            ELSE IF isTemporalType(valueTypeName)
                 THEN <<Arg(t.name, Named(valueTypeName \o "Input"))>>
            ELSE <<>>])

possiblyAddQuery(astNode, tm, cfg) ==
    IF /\ isNodeType(astNode)
       /\ shouldAugmentType(cfg, "query", astNode.name)
       /\ astNode.name \notin createOperationMap(tm, "Query")
    THEN pushField(tm, "Query",
            Field(astNode.name, ListOf(Named(astNode.name)),
                  createQueryArguments(astNode, tm), <<>>))
    ELSE tm

createOrderingFields(astNode, tm) ==
    Flatten([i \in DOMAIN astNode.fields |->
        LET field == astNode.fields[i]
            valueTypeName == getNamedType(field)
        IN  IF /\ ~isListType(field)
               /\ fieldIsNotIgnored(field)
               /\ \/ isBasicScalar(valueTypeName)
                  \/ isKind(Lookup(tm, valueTypeName), "EnumTypeDefinition")
                  \/ isTemporalType(valueTypeName)
            THEN <<field.name \o "_asc", field.name \o "_desc">>
            ELSE <<>>])

possiblyAddOrderingEnum(astNode, tm, cfg) ==
    LET name == "_" \o astNode.name \o "Ordering"
    IN  IF /\ isNodeType(astNode)
           /\ shouldAugmentType(cfg, "query", astNode.name)
           /\ ~Has(tm, name)
           /\ Len(createOrderingFields(astNode, tm)) > 0
        THEN Put(tm, name, EnumDef(name, createOrderingFields(astNode, tm)))
        ELSE tm

(***************************************************************************)
(* Per-type stages: input type, filter type.                               *)
(***************************************************************************)
decideFieldType(n) == IF isTemporalType(n) THEN n \o "Input" ELSE n

\* transformManagedFieldTypes rewrites the printed argument: the first of the
\* structured temporal names it finds is replaced by the name of its input twin
transformManagedName(n) ==
    IF n = "_Neo4jDateTime" THEN "_Neo4jDateTimeInput"
    ELSE IF n = "_Neo4jDate" THEN "_Neo4jDateInput"
    ELSE IF n = "_Neo4jTime" THEN "_Neo4jTimeInput"
    ELSE IF n = "_Neo4jLocalTime" THEN "_Neo4jLocalTimeInput"
    ELSE IF n = "_Neo4jLocalDateTime" THEN "_Neo4jLocalDateTimeInput"
    ELSE n

transformManagedFieldTypes(args) ==
    [i \in DOMAIN args |-> [args[i] EXCEPT !.type.name = transformManagedName(@)]]

\* the test the mutation and input builders share: a stored, scalar-like field
isInputField(astNode, t, tm) ==
    /\ fieldIsNotIgnored(t)
    /\ isNotSystemField(t.name)
    /\ ~getFieldDirective(t, "cypher")
    /\ \/ isBasicScalar(getNamedType(t))
       \/ isKind(Lookup(tm, getNamedType(t)), "EnumTypeDefinition")
       \/ isKind(Lookup(tm, getNamedType(t)), "ScalarTypeDefinition")
       \/ isTemporalType(getNamedType(t))

buildRelationTypeInputFields(astNode, tm) ==
    transformManagedFieldTypes(Flatten([i \in DOMAIN astNode.fields |->
        IF isInputField(astNode, astNode.fields[i], tm)
        THEN <<Arg(astNode.fields[i].name, astNode.fields[i].type)>>
        ELSE <<>>]))

hasSomePropertyField(astNode) ==
    \E i \in DOMAIN astNode.fields : astNode.fields[i].name \notin {"from", "to"}

ArgsAsFields(args) == [i \in DOMAIN args |-> Plain(args[i].name, args[i].type)]

possiblyAddTypeInput(astNode, tm, cfg) ==
    LET inputName == "_" \o astNode.name \o "Input"
    IN  IF ~shouldAugmentType(cfg, "mutation", astNode.name) THEN tm
        ELSE IF isNodeType(astNode)
        THEN IF ~Has(tm, inputName) /\ hasPrimaryKey(astNode)
             THEN Put(tm, inputName,
                    Doc("InputObjectTypeDefinition", inputName,
                        <<Plain(getPrimaryKey(astNode).name,
                                NonNullOf(Named(decideFieldType(
                                    getNamedType(getPrimaryKey(astNode))))))>>,
                        <<>>))
             ELSE tm
        ELSE IF getTypeDirective(astNode, "relation")
        THEN IF /\ ~Has(tm, inputName)
                /\ hasSomePropertyField(astNode)
                /\ shouldAugmentRelationField(cfg, "mutation",
                        astNode.fields[IndexOf(astNode.fields, "from")].type.name,
                        astNode.fields[IndexOf(astNode.fields, "to")].type.name)
             THEN Put(tm, inputName,
                    Doc("InputObjectTypeDefinition", inputName,
                        ArgsAsFields(buildRelationTypeInputFields(astNode, tm)), <<>>))
             ELSE tm
        ELSE tm

\* the operators of one group, in the order written: each suffix, and whether
\* its value is a single value (FALSE) or a list of required values (TRUE)
FilterGroup(fieldName, v, ops) ==
    [i \in DOMAIN ops |->
        Plain(fieldName \o ops[i][1],
              IF ops[i][2] THEN ListOf(NonNullOf(Named(v))) ELSE Named(v))]

EqualityOps == <<<<"", FALSE>>, <<"_not", FALSE>>>>
MembershipOps == <<<<"_in", TRUE>>, <<"_not_in", TRUE>>>>
StringOps ==
    <<<<"_contains", FALSE>>, <<"_not_contains", FALSE>>, <<"_starts_with", FALSE>>,
      <<"_not_starts_with", FALSE>>, <<"_ends_with", FALSE>>, <<"_not_ends_with", FALSE>>>>
RangeOps == <<<<"_lt", FALSE>>, <<"_lte", FALSE>>, <<"_gt", FALSE>>, <<"_gte", FALSE>>>>
QuantifierOps ==
    <<<<"_some", FALSE>>, <<"_none", FALSE>>, <<"_single", FALSE>>, <<"_every", FALSE>>>>

StringFilters(fieldName, v) ==
    FilterGroup(fieldName, v, EqualityOps \o MembershipOps \o StringOps)
NumberFilters(fieldName, v) ==
    FilterGroup(fieldName, v, EqualityOps \o MembershipOps \o RangeOps)
BooleanFilters_withMembership(fieldName, v) ==
    FilterGroup(fieldName, v, EqualityOps \o MembershipOps)
BooleanFilters(fieldName, v) == FilterGroup(fieldName, v, EqualityOps)
EnumFilters(fieldName, v) == FilterGroup(fieldName, v, EqualityOps \o MembershipOps)
RelationFilters(fieldName, v) ==
    FilterGroup(fieldName, "_" \o v \o "Filter", EqualityOps \o MembershipOps)
RelationListFilters(fieldName, v) ==
    FilterGroup(fieldName, "_" \o v \o "Filter",
                EqualityOps \o MembershipOps \o QuantifierOps)

fieldFilters(t, tm, cfg) ==
    LET fieldName == t.name
        valueTypeName == getNamedType(t)
        valueType == Lookup(tm, valueTypeName)
        isRelation ==
            /\ isKind(valueType, "ObjectTypeDefinition")
            /\ getFieldDirective(t, "relation")
            /\ shouldAugmentType(cfg, "query", valueTypeName)
    IN  IF ~(fieldIsNotIgnored(t) /\ isNotSystemField(fieldName) /\ ~getFieldDirective(t, "cypher"))
        THEN <<>>
        ELSE IF ~isListType(t)
        THEN IF valueTypeName = "ID" \/ valueTypeName = "String"
                THEN StringFilters(fieldName, valueTypeName)
             ELSE IF valueTypeName = "Int" \/ valueTypeName = "Float"
                THEN NumberFilters(fieldName, valueTypeName)
             ELSE IF valueTypeName = "Boolean" THEN BooleanFilters(fieldName, valueTypeName)
             ELSE IF isKind(valueType, "EnumTypeDefinition")
                THEN EnumFilters(fieldName, valueTypeName)
             ELSE IF isRelation THEN RelationFilters(fieldName, valueTypeName)
             ELSE <<>>
        ELSE IF isRelation THEN RelationListFilters(fieldName, valueTypeName)
        ELSE <<>>

buildFilterFields(filterType, astNode, tm, cfg) ==
    <<Plain("AND", ListOf(Named(filterType))), Plain("OR", ListOf(Named(filterType)))>>
        \o Flatten([i \in DOMAIN astNode.fields |-> fieldFilters(astNode.fields[i], tm, cfg)])

possiblyAddFilterInput(astNode, tm, cfg) ==
    LET name == "_" \o astNode.name \o "Filter"
    IN  IF /\ isNodeType(astNode)
           /\ shouldAugmentType(cfg, "query", astNode.name)
           /\ ~Has(tm, name)
           /\ Len(buildFilterFields(name, astNode, tm, cfg)) > 0
        THEN Put(tm, name,
                Doc("InputObjectTypeDefinition", name,
                    buildFilterFields(name, astNode, tm, cfg), <<>>))
        ELSE tm

(***************************************************************************)
(* Per-type stage: Create / Update / Delete mutations.                     *)
(***************************************************************************)
\* print(t) of a whole field writes its arguments before its type, and the
\* rewrite replaces the first structured temporal name of the printed text:
\* the type of the field is rewritten when no argument names one before it
printedFieldType(t) ==
    IF \E i \in DOMAIN t.arguments :
            \/ isTemporalType(t.arguments[i].type.name)
            \/ \E k \in DOMAIN TemporalKinds :
                    t.arguments[i].type.name = "_Neo4j" \o TemporalKinds[k] \o "Input"
    THEN t.type
    ELSE [t.type EXCEPT !.name = transformManagedName(@)]

buildCreateMutationArguments_requiresId(astNode, tm) ==
    Flatten([i \in DOMAIN astNode.fields |->
        IF isInputField(astNode, astNode.fields[i], tm)
        THEN <<Arg(astNode.fields[i].name, printedFieldType(astNode.fields[i]))>>
        ELSE <<>>])

buildCreateMutationArguments(astNode, tm) ==
    LET eligible(i) == isInputField(astNode, astNode.fields[i], tm)
        isIdField(i) ==
            /\ isNonNullType(astNode.fields[i])
            /\ ~isListType(astNode.fields[i])
            /\ getNamedType(astNode.fields[i]) = "ID"
        \* firstIdField is still unset when no earlier eligible field set it
        isFirstIdField(i) ==
            isIdField(i) /\ \A j \in 1..(i - 1) : ~(eligible(j) /\ isIdField(j))
    IN  Flatten([i \in DOMAIN astNode.fields |->
            IF ~eligible(i) THEN <<>>
            ELSE IF isFirstIdField(i)
                 THEN <<Arg(astNode.fields[i].name, Named(getNamedType(astNode.fields[i])))>>
                 ELSE <<Arg(astNode.fields[i].name, printedFieldType(astNode.fields[i]))>>])

buildUpdateMutationArguments_keepsRequired(primaryKey, astNode, tm) ==
    transformManagedFieldTypes(
        <<Arg(primaryKey.name, NonNullOf(Named(getNamedType(primaryKey))))>>
            \o Flatten([i \in DOMAIN astNode.fields |->
                    IF /\ astNode.fields[i].name # primaryKey.name
                       /\ isInputField(astNode, astNode.fields[i], tm)
                    THEN <<Arg(astNode.fields[i].name, astNode.fields[i].type)>>
                    ELSE <<>>]))

buildUpdateMutationArguments(primaryKey, astNode, tm) ==
    LET others ==
            Flatten([i \in DOMAIN astNode.fields |->
                LET t == astNode.fields[i]
                IN  IF t.name # primaryKey.name /\ isInputField(astNode, t, tm)
                    THEN <<Arg(t.name,
                               IF isNonNullType(t)
                               THEN [t.type EXCEPT !.wrap = Tail(@)]
                               ELSE t.type)>>
                    ELSE <<>>])
    IN  IF Len(others) > 0
        THEN transformManagedFieldTypes(
                <<Arg(primaryKey.name, NonNullOf(Named(getNamedType(primaryKey))))>>
                    \o others)
        ELSE others

buildDeleteMutationArguments(primaryKey) ==
    transformManagedFieldTypes(
        <<Arg(primaryKey.name, NonNullOf(Named(getNamedType(primaryKey))))>>)

\* the switch of buildMutationArguments: Update falls through to Delete when
\* there is no primary key, and Delete without a primary key returns nothing
buildMutationArguments(mutationType, astNode, tm) ==
    IF mutationType = "Create"
    THEN [defined |-> TRUE, args |-> buildCreateMutationArguments(astNode, tm)]
    ELSE IF mutationType = "Update" /\ hasPrimaryKey(astNode)
    THEN [defined |-> TRUE,
          args |-> buildUpdateMutationArguments(getPrimaryKey(astNode), astNode, tm)]
    ELSE IF hasPrimaryKey(astNode)
    THEN [defined |-> TRUE, args |-> buildDeleteMutationArguments(getPrimaryKey(astNode))]
    ELSE [defined |-> FALSE, args |-> <<>>]

\* args.length of a missing argument list is a TypeError
typeMutationThrows(mutationType, astNode, tm, mutationMap) ==
    /\ (mutationType \o astNode.name) \notin mutationMap
    /\ ~buildMutationArguments(mutationType, astNode, tm).defined

possiblyAddTypeMutation(mutationType, astNode, tm, mutationMap) ==
    LET mutationName == mutationType \o astNode.name
        built == buildMutationArguments(mutationType, astNode, tm)
    IN  IF mutationName \notin mutationMap /\ Len(built.args) > 0
        THEN pushField(tm, "Mutation",
                Field(mutationName, Named(astNode.name), built.args, <<>>))
        ELSE tm

typeMutationsApply(astNode, cfg) ==
    shouldAugmentType(cfg, "mutation", astNode.name) /\ isNodeType(astNode)

typeMutationsError(astNode, tm, cfg) ==
    IF /\ typeMutationsApply(astNode, cfg)
       /\ \E mt \in {"Create", "Update", "Delete"} :
            typeMutationThrows(mt, astNode, tm, createOperationMap(tm, "Mutation"))
    THEN "TypeError"
    ELSE "none"

possiblyAddTypeMutations(astNode, tm, cfg) ==
    LET mutationMap == createOperationMap(tm, "Mutation")
    IN  IF typeMutationsApply(astNode, cfg)
        THEN possiblyAddTypeMutation("Delete", astNode,
                possiblyAddTypeMutation("Update", astNode,
                    possiblyAddTypeMutation("Create", astNode, tm, mutationMap),
                    mutationMap),
                mutationMap)
        ELSE tm

(***************************************************************************)
(* Per-type stage: relationship fields.                                    *)
(***************************************************************************)
\* field.name.value.charAt(0).toUpperCase() + field.name.value.substr(1)
capitalize(n) ==
    IF CharsOf(n) = <<>> THEN n
    ELSE JoinChars(<<toUpperCase(Head(CharsOf(n)))>> \o Tail(CharsOf(n)))

\* ./utils: the arguments of a field-level relation marker
getRelationName(relationFieldDirective) == relationFieldDirective.args.name
getRelationDirection(relationFieldDirective) == relationFieldDirective.args.direction

\* ./utils: the property fields of a relationship type, as payload fields
getRelationMutationPayloadFieldsFromAst(relatedAstNode) ==
    Flatten([i \in DOMAIN relatedAstNode.fields |->
        LET t == relatedAstNode.fields[i]
        IN  IF t.name # "to" /\ t.name # "from"
            THEN <<Plain(t.name,
                         IF isListType(t) THEN ListOf(Named(getNamedType(t)))
                         ELSE Named(getNamedType(t)))>>
            ELSE <<>>])

MutationMeta(relationName, fromName, toName) ==
    Dir("MutationMeta", [relationship |-> relationName, from |-> fromName, to |-> toName])

\* relationMutationField that does not look at the action before adding data
relationMutationField_dataOnRemove(action, typeName, capitalizedFieldName, fromName, toName, relationName, relatedAstNode, relationHasProps) ==
    LET mutationName == action \o typeName \o capitalizedFieldName
        shouldUseRelationDataArgument ==
            relationHasProps /\ hasSomePropertyField(relatedAstNode)
    IN  Field(mutationName, Named("_" \o mutationName \o "Payload"),
              <<Arg("from", NonNullOf(Named("_" \o fromName \o "Input"))),
                Arg("to", NonNullOf(Named("_" \o toName \o "Input")))>>
                \o (IF shouldUseRelationDataArgument
                    THEN <<Arg("data", NonNullOf(Named("_" \o relatedAstNode.name \o "Input")))>>
                    ELSE <<>>),
              <<MutationMeta(relationName, fromName, toName)>>)

relationMutationField(action, typeName, capitalizedFieldName, fromName, toName, relationName, relatedAstNode, relationHasProps) ==
    LET mutationName == action \o typeName \o capitalizedFieldName
        shouldUseRelationDataArgument ==
            relationHasProps /\ hasSomePropertyField(relatedAstNode) /\ action = "Add"
    IN  Field(mutationName, Named("_" \o mutationName \o "Payload"),
              <<Arg("from", NonNullOf(Named("_" \o fromName \o "Input"))),
                Arg("to", NonNullOf(Named("_" \o toName \o "Input")))>>
                \o (IF shouldUseRelationDataArgument
                    THEN <<Arg("data", NonNullOf(Named("_" \o relatedAstNode.name \o "Input")))>>
                    ELSE <<>>),
              <<MutationMeta(relationName, fromName, toName)>>)

\* relationMutationPayload that never copies the property fields
relationMutationPayload_withoutProperties(action, typeName, capitalizedFieldName, fromName, toName, relationName, relatedAstNode, relationHasProps) ==
    Doc("ObjectTypeDefinition", "_" \o action \o typeName \o capitalizedFieldName \o "Payload",
        <<Plain("from", Named(fromName)), Plain("to", Named(toName))>>,
        <<Dir("relation", [name |-> relationName, from |-> fromName, to |-> toName])>>)

relationMutationPayload(action, typeName, capitalizedFieldName, fromName, toName, relationName, relatedAstNode, relationHasProps) ==
    LET shouldUseRelationDataArgument ==
            relationHasProps /\ hasSomePropertyField(relatedAstNode) /\ action = "Add"
    IN  Doc("ObjectTypeDefinition", "_" \o action \o typeName \o capitalizedFieldName \o "Payload",
            <<Plain("from", Named(fromName)), Plain("to", Named(toName))>>
                \o (IF shouldUseRelationDataArgument
                    THEN getRelationMutationPayloadFieldsFromAst(relatedAstNode)
                    ELSE <<>>),
            <<Dir("relation", [name |-> relationName, from |-> fromName, to |-> toName])>>)

\* one pass of the forEach over ['Add', 'Remove']
addRelationMutation(action, typeName, capitalizedFieldName, fromName, toName, mutationMap, tm, relationName, relatedAstNode, relationHasProps) ==
    LET mutationName == action \o typeName \o capitalizedFieldName
        payloadTypeName == "_" \o mutationName \o "Payload"
        pushed == pushField(tm, "Mutation",
                    relationMutationField(action, typeName, capitalizedFieldName, fromName,
                        toName, relationName, relatedAstNode, relationHasProps))
    IN  IF mutationName \in mutationMap THEN tm
        ELSE IF ~Has(pushed, payloadTypeName)
        THEN Put(pushed, payloadTypeName,
                relationMutationPayload(action, typeName, capitalizedFieldName, fromName,
                    toName, relationName, relatedAstNode, relationHasProps))
        ELSE pushed

possiblyAddRelationMutationField(typeName, capitalizedFieldName, fromName, toName, mutationMap, tm, relationName, relatedAstNode, relationHasProps) ==
    addRelationMutation("Remove", typeName, capitalizedFieldName, fromName, toName, mutationMap,
        addRelationMutation("Add", typeName, capitalizedFieldName, fromName, toName,
            mutationMap, tm, relationName, relatedAstNode, relationHasProps),
        relationName, relatedAstNode, relationHasProps)

\* TRUE when validateRelationTypeDirectedFields throws
directedFieldsInvalid(typeName, fromName, toName) ==
    fromName # toName /\ toName # typeName /\ fromName # typeName

\* handleRelationFieldDirective that takes the owner as `from` whatever the direction
handleRelationFieldDirective_ignoresDirection(relatedAstNode, typeName, capitalizedFieldName, fieldValueName, relationFieldDirective, mutationMap, tm, cfg) ==
    IF shouldAugmentRelationField(cfg, "mutation", typeName, fieldValueName)
    THEN possiblyAddRelationMutationField(typeName, capitalizedFieldName, typeName,
            fieldValueName, mutationMap, tm, getRelationName(relationFieldDirective),
            relatedAstNode, FALSE)
    ELSE tm

handleRelationFieldDirective(relatedAstNode, typeName, capitalizedFieldName, fieldValueName, relationFieldDirective, mutationMap, tm, cfg) ==
    LET inbound == getRelationDirection(relationFieldDirective) \in {"IN", "in"}
        fromName == IF inbound THEN fieldValueName ELSE typeName
        toName == IF inbound THEN typeName ELSE fieldValueName
    IN  IF shouldAugmentRelationField(cfg, "mutation", typeName, fieldValueName)
        THEN possiblyAddRelationMutationField(typeName, capitalizedFieldName, fromName, toName,
                mutationMap, tm, getRelationName(relationFieldDirective), relatedAstNode, FALSE)
        ELSE tm

\* the payload type of a relationship-type field; also yields the field, whose
\* arguments are removed in the reflexive case, and the definition the
\* assignment of the directional wrapper displaced, if any
possiblyAddRelationTypeFieldPayload(relationAstNode, capitalizedFieldName, typeName, tm, field) ==
    LET fieldTypeName == "_" \o typeName \o capitalizedFieldName
        directionsName == fieldTypeName \o "Directions"
        fromValue == relationAstNode.fields[IndexOf(relationAstNode.fields, "from")].type.name
        toValue == relationAstNode.fields[IndexOf(relationAstNode.fields, "to")].type.name
        relationTypePayloadFields ==
            SelectSeq(relationAstNode.fields, LAMBDA t : t.name \notin {"from", "to"})
        ends == IF isListType(field) THEN ListOf(Named(fieldTypeName)) ELSE Named(fieldTypeName)
        unchanged == [tm |-> tm, field |-> field, displaced |-> [x \in {} |-> Undefined]]
    IN  IF Has(tm, fieldTypeName) \/ ~getTypeDirective(relationAstNode, "relation")
        THEN unchanged
        ELSE IF fromValue = toValue
        THEN [tm |->
                Put(Put(tm, directionsName,
                        Doc("ObjectTypeDefinition", directionsName,
                            <<Field("from", ends, field.arguments, <<>>),
                              Field("to", ends, field.arguments, <<>>)>>,
                            relationAstNode.directives)),
                    fieldTypeName,
                    Doc("ObjectTypeDefinition", fieldTypeName,
                        relationTypePayloadFields \o <<Plain(fromValue, Named(fromValue))>>,
                        relationAstNode.directives)),
              field |-> [field EXCEPT !.arguments = <<>>],
              displaced |->
                IF Has(tm, directionsName)
                THEN directionsName :> tm.defs[directionsName]
                ELSE [x \in {} |-> Undefined]]
        ELSE [unchanged EXCEPT !.tm =
                Put(tm, fieldTypeName,
                    Doc("ObjectTypeDefinition", fieldTypeName,
                        relationTypePayloadFields
                            \o (IF typeName = toValue THEN <<Plain(fromValue, Named(fromValue))>>
                                ELSE IF typeName = fromValue
                                THEN <<Plain(toValue, Named(toValue))>>
                                ELSE <<>>),
                        relationAstNode.directives))]

replaceRelationTypeValue(fromName, toName, field, capitalizedFieldName, typeName) ==
    LET named == Named("_" \o typeName \o capitalizedFieldName
                        \o (IF fromName = toName THEN "Directions" ELSE ""))
    IN  [field EXCEPT !.type =
            IF isListType(field) /\ fromName # toName THEN ListOf(named) ELSE named]

\* handleRelationTypeDirective handing the endpoints over in the wrong order
handleRelationTypeDirective_swapsEndpoints(relatedAstNode, typeName, fieldIndex, capitalizedFieldName, cfg, tm, mutationMap) ==
    LET args == getDirective(relatedAstNode.directives, "relation").args
        field == tm.defs[typeName].fields[fieldIndex]
        mutated ==
            IF shouldAugmentRelationField(cfg, "mutation", args.from, args.to)
            THEN possiblyAddRelationMutationField(typeName, capitalizedFieldName, args.to,
                    args.from, mutationMap, tm, args.name, relatedAstNode, TRUE)
            ELSE tm
        payload == possiblyAddRelationTypeFieldPayload(relatedAstNode, capitalizedFieldName,
                        typeName, mutated, field)
    IN  [tm |-> [payload.tm EXCEPT !.defs[typeName].fields[fieldIndex] =
                    replaceRelationTypeValue(args.from, args.to, payload.field,
                                             capitalizedFieldName, typeName)],
         displaced |-> payload.displaced]

\* handleRelationTypeDirective at field number fieldIndex of the type typeName
handleRelationTypeDirective(relatedAstNode, typeName, fieldIndex, capitalizedFieldName, cfg, tm, mutationMap) ==
    LET args == getDirective(relatedAstNode.directives, "relation").args
        field == tm.defs[typeName].fields[fieldIndex]
        mutated ==
            IF shouldAugmentRelationField(cfg, "mutation", args.from, args.to)
            THEN possiblyAddRelationMutationField(typeName, capitalizedFieldName, args.from,
                    args.to, mutationMap, tm, args.name, relatedAstNode, TRUE)
            ELSE tm
        payload == possiblyAddRelationTypeFieldPayload(relatedAstNode, capitalizedFieldName,
                        typeName, mutated, field)
    IN  [tm |-> [payload.tm EXCEPT !.defs[typeName].fields[fieldIndex] =
                    replaceRelationTypeValue(args.from, args.to, payload.field,
                                             capitalizedFieldName, typeName)],
         displaced |-> payload.displaced]

\* the error the body of the loop of handleRelationFields throws at one field
relationFieldError(typeName, field, tm, cfg) ==
    LET relatedAstNode == Lookup(tm, getNamedType(field))
        args == getDirective(relatedAstNode.directives, "relation").args
    IN  IF /\ fieldIsNotIgnored(field)
           /\ relatedAstNode.kind # "undefined"
           /\ ~isNodeType(relatedAstNode)
           /\ getTypeDirective(relatedAstNode, "relation")
           /\ shouldAugmentRelationField(cfg, "mutation", args.from, args.to)
           /\ directedFieldsInvalid(typeName, args.from, args.to)
        THEN "ReferenceError"
        ELSE "none"

\* the body of the loop of handleRelationFields at one field
handleRelationField(typeName, fieldIndex, acc, cfg, mutationMap) ==
    LET field == acc.tm.defs[typeName].fields[fieldIndex]
        fieldValueName == getNamedType(field)
        capitalizedFieldName == capitalize(field.name)
        relatedAstNode == Lookup(acc.tm, fieldValueName)
    IN  IF acc.err # "none" \/ ~fieldIsNotIgnored(field) \/ relatedAstNode.kind = "undefined"
        THEN acc
        ELSE IF isNodeType(relatedAstNode)
        THEN IF getFieldDirective(field, "relation")
             THEN [acc EXCEPT !.tm =
                    handleRelationFieldDirective(relatedAstNode, typeName,
                        capitalizedFieldName, fieldValueName,
                        getDirective(field.directives, "relation"), mutationMap, acc.tm, cfg)]
             ELSE acc
        ELSE IF getTypeDirective(relatedAstNode, "relation")
        THEN IF relationFieldError(typeName, field, acc.tm, cfg) # "none"
             THEN [acc EXCEPT !.err = relationFieldError(typeName, field, acc.tm, cfg)]
             ELSE LET done == handleRelationTypeDirective(relatedAstNode, typeName, fieldIndex,
                                capitalizedFieldName, cfg, acc.tm, mutationMap)
                  IN  [acc EXCEPT !.tm = done.tm, !.displaced = done.displaced @@ @]
        ELSE acc

RECURSIVE handleRelationFieldsFrom(_, _, _, _, _)
handleRelationFieldsFrom(typeName, fieldIndex, acc, cfg, mutationMap) ==
    IF fieldIndex > Len(acc.tm.defs[typeName].fields) THEN acc
    ELSE handleRelationFieldsFrom(typeName, fieldIndex + 1,
            handleRelationField(typeName, fieldIndex, acc, cfg, mutationMap), cfg, mutationMap)

\* yields the type map, the error thrown (if any) and the displaced definitions
handleRelationFields(astNode, tm, cfg) ==
    IF isNodeType(astNode)
    THEN handleRelationFieldsFrom(astNode.name, 1,
            [tm |-> tm, err |-> "none", displaced |-> [x \in {} |-> Undefined]],
            cfg, createOperationMap(tm, "Mutation"))
    ELSE [tm |-> tm, err |-> "none", displaced |-> [x \in {} |-> Undefined]]

(***************************************************************************)
(* Closing stages: arguments of the root query fields, declarations.       *)
(***************************************************************************)
augmentQueryArguments(tm, cfg) ==
    IF Len(fieldsOf(Lookup(tm, "Query"))) > 0
    THEN [tm EXCEPT !.defs["Query"].fields =
            [i \in DOMAIN @ |->
                LET field == @[i]
                    valueTypeName == getNamedType(field)
                IN  IF /\ isNodeType(Lookup(tm, valueTypeName))
                       /\ shouldAugmentType(cfg, "query", valueTypeName)
                    THEN [field EXCEPT !.arguments =
                            paginationArguments(@, field, valueTypeName)]
                    ELSE field]]
    ELSE tm

\* ./utils: the declarations of the directives the engine introduces
DirectiveDeclarations == <<"cypher", "relation", "MutationMeta", "neo4j_ignore">>

RECURSIVE addDeclarationsFrom(_, _)
addDeclarationsFrom(tm, i) ==
    IF i > Len(DirectiveDeclarations) THEN tm
    ELSE addDeclarationsFrom(
            Put(tm, DirectiveDeclarations[i],
                Def("DirectiveDefinition", DirectiveDeclarations[i], <<>>, <<>>)), i + 1)

addDirectiveDeclarations(tm) == addDeclarationsFrom(tm, 1)

(***************************************************************************)
(* Resolvers.  A resolver map is undefined, or maps a type name to the      *)
(* resolvers of its fields by name; a resolver is the caller's function     *)
(* ("user"), the default delegate function(...args) { return                *)
(* neo4jgraphql(...args, config.debug) } ("neo4jgraphql"), or the function  *)
(* that returns obj['FRAGMENT_TYPE'] ("FRAGMENT_TYPE").                     *)
(***************************************************************************)
NoFields == [n \in {} |-> "user"]
NoResolvers == [defined |-> FALSE, types |-> [t \in {} |-> NoFields]]
ResolverMap(ts) == [defined |-> TRUE, types |-> ts]

\* resolvers && resolvers.Query ? resolvers.Query : {}
operationResolvers(rs, root) ==
    IF rs.defined /\ root \in DOMAIN rs.types THEN rs.types[root] ELSE NoFields

possiblyAddResolvers_overridesUser(operationTypeMap, rs) ==
    [n \in DOMAIN rs \cup operationTypeMap |->
        IF n \in operationTypeMap THEN "neo4jgraphql" ELSE rs[n]]

\* a field without an entry gets the default delegate
possiblyAddResolvers(operationTypeMap, rs) ==
    [n \in DOMAIN rs \cup operationTypeMap |->
        IF n \in DOMAIN rs THEN rs[n] ELSE "neo4jgraphql"]

setResolvers(rs, t, fs) ==
    [rs EXCEPT !.types = [n \in DOMAIN @ \cup {t} |-> IF n = t THEN fs ELSE @[n]]]

interfaceTypes(tm) ==
    SelectSeq(tm.keys, LAMBDA e : tm.defs[e].kind = "InterfaceTypeDefinition")

RECURSIVE addResolveType(_, _)
addResolveType(rs, es) ==
    IF es = <<>> THEN rs
    ELSE addResolveType(setResolvers(rs, Head(es), [n \in {"__resolveType"} |-> "FRAGMENT_TYPE"]),
                        Tail(es))

\* resolvers.Query = ..., resolvers.Mutation = ..., resolvers[e] = {} on a
\* resolver map that is undefined is a TypeError
augmentResolversThrows(tm, rs) ==
    /\ ~rs.defined
    /\ \/ createOperationMap(tm, "Query") # {}
       \/ createOperationMap(tm, "Mutation") # {}
       \/ interfaceTypes(tm) # <<>>

augmentResolvers(tm, rs) ==
    LET queryResolvers ==
            possiblyAddResolvers(createOperationMap(tm, "Query"),
                                 operationResolvers(rs, "Query"))
        withQuery ==
            IF DOMAIN queryResolvers # {} THEN setResolvers(rs, "Query", queryResolvers)
            ELSE rs
        mutationResolvers ==
            possiblyAddResolvers(createOperationMap(tm, "Mutation"),
                                 operationResolvers(rs, "Mutation"))
        withMutation ==
            IF DOMAIN mutationResolvers # {}
            THEN setResolvers(withQuery, "Mutation", mutationResolvers)
            ELSE withQuery
    IN  addResolveType(withMutation, interfaceTypes(tm))

(***************************************************************************)
(* The input schemas and configurations.                                   *)
(*                                                                         *)
(*   type Person { id: ID!  name: String  born(at: K): K  movies: ... }    *)
(*   type Movie  { id: ID!  title: String }                                *)
(*                                                                         *)
(* Person.movies is absent, a field-level relation to a node type, or a    *)
(* field whose value type is the relationship type ActedIn { from to       *)
(* roles }.  The parameters choose the shape of each part, the definitions *)
(* the user supplies under names the engine derives, the root fields the   *)
(* user already wrote, and the configuration.                              *)
(***************************************************************************)
\* wrapper nestings up to a depth (a non-null layer never wraps a non-null layer)
RECURSIVE Wraps(_)
Wraps(n) ==
    IF n = 0 THEN {<<>>}
    ELSE Wraps(n - 1) \cup
         {s \in {<<l>> \o w : l \in {"List", "NonNull"}, w \in Wraps(n - 1)} :
            /\ Len(s) = n
            /\ \A i \in 1..(n - 1) : ~(s[i] = "NonNull" /\ s[i + 1] = "NonNull")}

Policies == {CfgBool(TRUE), CfgBool(FALSE), CfgExclude({"Movie"}), CfgExclude({"Person"})}

UserNames ==
    {"_PersonFilter", "_PersonOrdering", "_PersonInput", "_ActedInInput", "_PersonMovies",
     "_PersonMoviesDirections", "_AddPersonMoviesPayload", "_Neo4jDateTime",
     "_Neo4jDateTimeInput"}

\* a definition the user wrote under a name the engine derives
UserDef(n) ==
    IF n \in {"_PersonFilter", "_PersonInput", "_ActedInInput", "_Neo4jDateTimeInput"}
    THEN Def("InputObjectTypeDefinition", n, <<Plain("mine", Named("String"))>>, <<>>)
    ELSE IF n = "_PersonOrdering" THEN EnumDef(n, <<"mine_asc">>)
    ELSE Def("ObjectTypeDefinition", n, <<Plain("mine", Named("String"))>>, <<>>)

Base ==
    [hasId |-> TRUE, nameMark |-> "none", tKind |-> "none", tWrap |-> <<>>, tArgs |-> TRUE,
     rel |-> "none", dir |-> "OUT", relName |-> "ACTED_IN", relFrom |-> "Person", relTo |-> "Movie",
     props |-> FALSE, named |-> FALSE, markerEnds |-> FALSE, sides |-> "both",
     relList |-> TRUE, relArgs |-> FALSE, argName |-> "limit", queryArg |-> "none",
     user |-> {}, userFirst |-> FALSE, preQuery |-> FALSE, preMutation |-> "none",
     twinField |-> FALSE, backField |-> FALSE, relType |-> "ActedIn",
     ignoreMovie |-> FALSE, iface |-> FALSE, rich |-> FALSE, idField |-> "none", selfField |-> FALSE,
     q |-> CfgBool(TRUE), m |-> CfgBool(TRUE), temporal |-> TemporalBool(FALSE)]

PolicyInputs ==
    {[Base EXCEPT !.hasId = h, !.q = q, !.m = m, !.rel = r] :
        h \in BOOLEAN, q \in Policies, m \in Policies, r \in {"none", "field", "type"}}
    \cup {[Base EXCEPT !.ignoreMovie = TRUE, !.rel = r, !.nameMark = k] :
        r \in {"none", "field"}, k \in {"none", "neo4j_ignore", "cypher"}}

TemporalInputs ==
    {[Base EXCEPT !.tKind = k, !.tWrap = w, !.temporal = t] :
        k \in Range(TemporalKinds), w \in Wraps(MaxWrap),
        t \in {TemporalAbsent, TemporalObject([datetime |-> FALSE])}}
    \cup {[Base EXCEPT !.tKind = "DateTime", !.temporal = t] :
        t \in {TemporalBool(TRUE), TemporalBool(FALSE)}}
    \cup {[Base EXCEPT !.tKind = k, !.tWrap = w, !.tArgs = FALSE, !.temporal = TemporalAbsent] :
        k \in Range(TemporalKinds), w \in {<<>>, <<"NonNull">>}}

RelationInputs ==
    {[Base EXCEPT !.rel = "field", !.dir = d, !.relTo = t, !.relList = l, !.relArgs = a,
                  !.m = m] :
        d \in {"OUT", "IN", "in", "BOTH"}, t \in {"Movie", "Person"}, l \in BOOLEAN,
        a \in BOOLEAN, m \in {CfgBool(TRUE), CfgExclude({"Movie"})}}
    \cup {[Base EXCEPT !.rel = "type", !.relFrom = f, !.relTo = t, !.props = pr,
                       !.named = n, !.markerEnds = e, !.relList = l, !.relArgs = l,
                       !.m = m] :
        f \in {"Movie", "Person", "Genre"}, t \in {"Movie", "Person", "Genre"},
        pr \in BOOLEAN, n \in BOOLEAN, e \in BOOLEAN, l \in BOOLEAN,
        m \in {CfgBool(TRUE), CfgExclude({"Movie"})}}

UserInputs ==
    {[Base EXCEPT !.user = {u}, !.userFirst = uf, !.rel = r[1], !.relTo = r[2],
                  !.props = TRUE, !.tKind = "DateTime",
                  !.temporal = TemporalObject(
                        [time |-> FALSE, date |-> FALSE, localtime |-> FALSE,
                         localdatetime |-> FALSE]),
                  !.q = q, !.m = m] :
        u \in UserNames, uf \in BOOLEAN,
        r \in {<<"type", "Movie">>, <<"type", "Person">>, <<"none", "Movie">>},
        q \in {CfgBool(TRUE), CfgExclude({"Movie"})},
        m \in {CfgBool(TRUE), CfgBool(FALSE)}}

RootInputs ==
    {[Base EXCEPT !.preQuery = pq, !.preMutation = pm, !.rel = r, !.iface = i] :
        pq \in BOOLEAN, pm \in {"none", "CreatePerson", "AddPersonMovies"},
        r \in {"field", "type"}, i \in BOOLEAN}

\* a relationship type that declares one endpoint only
OneSidedInputs ==
    {[Base EXCEPT !.rel = "type", !.sides = sd, !.named = n, !.props = pr, !.m = m] :
        sd \in {"from", "to"}, n \in BOOLEAN, pr \in BOOLEAN,
        m \in {CfgBool(TRUE), CfgBool(FALSE)}}

\* the kinds of field of Person: numbers, a flag, an enum, a list of strings,
\* a declared _id, a field named as the type itself
FieldInputs ==
    {[Base EXCEPT !.rich = TRUE, !.idField = i, !.nameMark = k, !.q = q, !.rel = r,
                  !.relList = l] :
        i \in {"none", "ID", "ignored"}, k \in {"none", "neo4j_ignore", "cypher"},
        q \in {CfgBool(TRUE), CfgExclude({"Movie"}), CfgExclude({"Person"})},
        r \in {"none", "field"}, l \in BOOLEAN}
    \cup {[Base EXCEPT !.selfField = TRUE, !.hasId = h, !.preQuery = pq] :
        h \in BOOLEAN, pq \in BOOLEAN}

\* more than one field for the same relationship: Person.Movies beside
\* Person.movies, and Movie.actors for the way back
SiblingInputs ==
    {[Base EXCEPT !.rel = r, !.twinField = tw, !.backField = b, !.props = pr,
                  !.preMutation = pm] :
        r \in {"field", "type"}, tw \in BOOLEAN, b \in BOOLEAN, pr \in BOOLEAN,
        pm \in {"none", "AddPersonMovies"}}

\* relationship types of other names, with and without a name of the user's
RelationTypeNames == {"ActedIn", "R", "DB", "Rated2", "Acted_In"}
NamingInputs ==
    {[Base EXCEPT !.rel = "type", !.relType = n, !.named = nm, !.props = pr] :
        n \in RelationTypeNames, nm \in BOOLEAN, pr \in BOOLEAN}

\* fields that declare an argument of a name the engine uses
ArgumentNames == {"first", "offset", "orderBy", "filter", "limit"}
ArgumentInputs ==
    {[Base EXCEPT !.rel = r, !.relArgs = TRUE, !.argName = a, !.preQuery = pq,
                  !.queryArg = IF pq THEN a ELSE "none"] :
        r \in {"none", "field"}, a \in ArgumentNames, pq \in BOOLEAN}

Inputs ==
    PolicyInputs \cup TemporalInputs \cup RelationInputs \cup UserInputs \cup RootInputs
        \cup OneSidedInputs \cup FieldInputs \cup SiblingInputs
        \cup NamingInputs \cup ArgumentInputs

FieldMarks(k) == IF k = "none" THEN <<>> ELSE <<Dir(k, NoArgs)>>

\* an argument the user declares on a field of value type T
UserArg(a, T) ==
    Arg(a, CASE a = "orderBy" -> ListOf(Named("_" \o T \o "Ordering"))
             [] a = "filter" -> Named("_" \o T \o "Filter")
             [] OTHER -> Named("Int"))

RelationFieldArgs(p) == IF p.relArgs THEN <<UserArg(p.argName, p.relTo)>> ELSE <<>>

RelationFieldNamed(p, n) ==
    IF p.rel = "field"
    THEN <<Field(n,
                 IF p.relList THEN ListOf(Named(p.relTo)) ELSE Named(p.relTo),
                 RelationFieldArgs(p),
                 <<Dir("relation", [name |-> p.relName, direction |-> p.dir])>>)>>
    ELSE IF p.rel = "type"
    THEN <<Field(n,
                 IF p.relList THEN ListOf(Named(p.relType)) ELSE Named(p.relType),
                 RelationFieldArgs(p), <<>>)>>
    ELSE <<>>

RelationField(p) ==
    RelationFieldNamed(p, "movies")
        \o (IF p.twinField THEN RelationFieldNamed(p, "Movies") ELSE <<>>)

\* Movie.actors: the same relationship seen from its other end
BackField(p) ==
    IF ~p.backField THEN <<>>
    ELSE IF p.rel = "field"
    THEN <<Field("actors", ListOf(Named("Person")), <<>>,
                 <<Dir("relation", [name |-> p.relName, direction |-> "IN"])>>)>>
    ELSE IF p.rel = "type"
    THEN <<Field("actors", ListOf(Named(p.relType)), <<>>, <<>>)>>
    ELSE <<>>

\* age: Int  height: Float  alive: Boolean  role: Role  tags: [String]
RichFields ==
    <<Plain("age", Named("Int")), Plain("height", Named("Float")),
      Plain("alive", Named("Boolean")), Plain("role", Named("Role")),
      Plain("tags", ListOf(Named("String")))>>

RoleType == EnumDef("Role", <<"LEAD", "EXTRA">>)

\* the _id the input declares: `_id: ID! @cypher`, or `_id: ID @neo4j_ignore`
DeclaredIdField(p) ==
    IF p.idField = "ID"
    THEN <<Field("_id", NonNullOf(Named("ID")), <<>>, <<Dir("cypher", NoArgs)>>)>>
    ELSE IF p.idField = "ignored"
    THEN <<Field("_id", Named("ID"), <<>>, <<Dir("neo4j_ignore", NoArgs)>>)>>
    ELSE <<>>

PersonType(p) ==
    Def("ObjectTypeDefinition", "Person",
        (IF p.hasId THEN <<Plain("id", NonNullOf(Named("ID")))>> ELSE <<>>)
            \o DeclaredIdField(p)
            \o <<Field("name", Named("String"), <<>>, FieldMarks(p.nameMark))>>
            \o (IF p.rich THEN RichFields ELSE <<>>)
            \o (IF p.selfField THEN <<Plain("Person", Named("String"))>> ELSE <<>>)
            \o (IF p.tKind # "none"
                THEN <<Field("born", [name |-> p.tKind, wrap |-> p.tWrap],
                             IF p.tArgs
                             THEN <<Arg("at", [name |-> p.tKind, wrap |-> p.tWrap])>>
                             ELSE <<>>,
                             <<>>)>>
                ELSE <<>>)
            \o RelationField(p),
        <<>>)

MovieType(p) ==
    Def("ObjectTypeDefinition", "Movie",
        <<Plain("id", NonNullOf(Named("ID"))), Plain("title", Named("String"))>>
            \o BackField(p),
        IF p.ignoreMovie THEN <<Dir("neo4j_ignore", NoArgs)>> ELSE <<>>)

\* a third node type, in the schema when the relationship names it
GenreType(p) ==
    Def("ObjectTypeDefinition", "Genre",
        <<Plain("id", NonNullOf(Named("ID"))), Plain("label", Named("String"))>>, <<>>)

ActedInType(p) ==
    Def("ObjectTypeDefinition", p.relType,
        (IF p.sides \in {"both", "from"} THEN <<Plain("from", Named(p.relFrom))>> ELSE <<>>)
            \o (IF p.sides \in {"both", "to"} THEN <<Plain("to", Named(p.relTo))>> ELSE <<>>)
            \o (IF p.props THEN <<Plain("roles", ListOf(Named("String")))>> ELSE <<>>),
        IF p.named \/ p.markerEnds
        THEN <<Dir("relation",
                   (IF p.named THEN [name |-> "PLAYED"] ELSE NoArgs)
                   @@ (IF p.markerEnds THEN [from |-> "Movie", to |-> "Movie"] ELSE NoArgs))>>
        ELSE <<>>)

\* interface Named { name: String }
NamedInterface ==
    Def("InterfaceTypeDefinition", "Named", <<Plain("name", Named("String"))>>, <<>>)

\* the resolver maps a caller hands over: none, an empty one, one with
\* resolvers of its own for root fields and for the interface
ResolverInputs ==
    {NoResolvers,
     ResolverMap([t \in {} |-> NoFields]),
     ResolverMap([t \in {"Query"} |-> [n \in {"Person", "Mine"} |-> "user"]]),
     ResolverMap([t \in {"Mutation", "Named"} |->
        IF t = "Mutation" THEN [n \in {"CreatePerson"} |-> "user"]
        ELSE [n \in {"__resolveType", "name"} |-> "user"]])}

RECURSIVE PutAll(_, _)
PutAll(tm, ds) == IF ds = <<>> THEN tm ELSE PutAll(Put(tm, Head(ds).name, Head(ds)), Tail(ds))

SetToSeq(S) == CHOOSE q \in [1..Cardinality(S) -> S] : Range(q) = S

UserTypes(p) == [i \in 1..Cardinality(p.user) |-> UserDef(SetToSeq(p.user)[i])]

RootTypes(p) ==
    (IF p.preQuery
     THEN <<Def("ObjectTypeDefinition", "Query",
                <<Field("Person", ListOf(Named("Person")),
                        IF p.queryArg = "none" THEN <<>> ELSE <<UserArg(p.queryArg, "Person")>>,
                        <<>>)>>, <<>>)>>
     ELSE <<>>)
    \o (IF p.preMutation # "none"
        THEN <<Def("ObjectTypeDefinition", "Mutation",
                   <<Plain(p.preMutation, Named("Person"))>>, <<>>)>>
        ELSE <<>>)

Schema(p) ==
    PutAll(EmptyMap,
        (IF p.userFirst THEN UserTypes(p) ELSE <<>>)
            \o <<PersonType(p), MovieType(p)>>
            \o (IF "Genre" \in {p.relFrom, p.relTo} THEN <<GenreType(p)>> ELSE <<>>)
            \o (IF p.rich THEN <<RoleType>> ELSE <<>>)
            \o (IF p.iface THEN <<NamedInterface>> ELSE <<>>)
            \o (IF p.rel = "type" THEN <<ActedInType(p)>> ELSE <<>>)
            \o (IF p.userFirst THEN <<>> ELSE UserTypes(p))
            \o RootTypes(p))

Config(p) == [query |-> p.q, mutation |-> p.m, temporal |-> p.temporal]

\* the same relationship of Person.movies, stated as a field-level relation: the
\* value type is the other endpoint, the direction is inbound when Person is
\* the `to` side only, and the name is the one the relationship type carries
HasTwin(p) == p.rel = "type" /\ "Person" \in {p.relFrom, p.relTo}
Twin(p) ==
    [p EXCEPT !.rel = "field",
              !.relTo = IF p.relFrom = "Person" THEN p.relTo ELSE p.relFrom,
              !.dir = IF p.relFrom = "Person" THEN "OUT" ELSE "IN",
              !.relName = getDirective(
                    normalizedRelationDirective(ActedInType(p)).directives,
                    "relation").args.name]

(***************************************************************************)
(* The state machine: one action per stage of augmentTypeMap.              *)
(***************************************************************************)
NoHeld == [x \in {} |-> Undefined]

Init ==
    /\ input \in Inputs
    /\ typeMap0 = Schema(input)
    /\ typeMap = Schema(input)
    /\ config = Config(input)
    /\ entries = <<>>
    /\ held = NoHeld
    /\ idx = 0
    /\ pc = "initializeOperationTypes"
    /\ err = "none"
    /\ call = "first"
    /\ first = EmptyMap
    /\ resolvers0 = NoResolvers
    /\ resolvers = NoResolvers

\* the entry of the per-type loop, and the definition it is bound to
entryName == entries[idx]
entryType == typeMap.defs[entryName]

Fail(e) ==
    /\ err' = e
    /\ pc' = "failed"
    /\ UNCHANGED <<resolvers0, resolvers, input, typeMap0, typeMap, config, entries, held, idx, call, first>>

\* config = excludeIgnoredTypes(...); typeMap = initializeOperationTypes(...)
InitializeOperationTypes ==
    /\ pc = "initializeOperationTypes"
    /\ config' = excludeIgnoredTypes(typeMap, config)
    /\ typeMap' = initializeOperationTypes(typeMap, config')
    /\ pc' = "addRelationTypeDirectives"
    /\ UNCHANGED <<resolvers0, resolvers, input, typeMap0, entries, held, idx, err, call, first>>

AddRelationTypeDirectives ==
    /\ pc = "addRelationTypeDirectives"
    /\ IF relationTypeError(typeMap) # "none"
       THEN Fail(relationTypeError(typeMap))
       ELSE /\ typeMap' = addRelationTypeDirectives(typeMap)
            /\ pc' = "addTemporalTypes"
            /\ UNCHANGED <<resolvers0, resolvers, input, typeMap0, config, entries, held, idx, err, call, first>>

\* addTemporalTypes, then Object.entries(typeMap) is taken for the loop
AddTemporalTypes ==
    /\ pc = "addTemporalTypes"
    /\ typeMap' = addTemporalTypes(typeMap, config)
    /\ entries' = typeMap'.keys
    /\ idx' = 1
    /\ held' = NoHeld
    /\ pc' = IF typeMap'.keys = <<>> THEN "augmentQueryArguments" ELSE "augmentType"
    /\ UNCHANGED <<resolvers0, resolvers, input, typeMap0, config, err, call, first>>

\* a loop that is left after its first entry
NextEntry_leavesEarly ==
    /\ idx' = idx + 1
    /\ pc' = "augmentQueryArguments"

NextEntry ==
    /\ idx' = idx + 1
    /\ pc' = IF idx = Len(entries) THEN "augmentQueryArguments" ELSE "augmentType"

\* if (!isTemporalType(name)): the entry of a structured temporal type is passed over
SkipTemporalType ==
    /\ pc = "augmentType"
    /\ isTemporalType(entryName)
    /\ NextEntry
    /\ UNCHANGED <<resolvers0, resolvers, input, typeMap0, typeMap, config, entries, held, err, call, first>>

\* typeMap[name] = augmentType(type, ...): type is the object of the snapshot
AugmentType ==
    /\ pc = "augmentType"
    /\ ~isTemporalType(entryName)
    /\ typeMap' = Put(typeMap, entryName,
            augmentType(IF entryName \in DOMAIN held THEN held[entryName] ELSE entryType,
                        typeMap, config))
    /\ held' = [n \in DOMAIN held \ {entryName} |-> held[n]]
    /\ pc' = "possiblyAddQuery"
    /\ UNCHANGED <<resolvers0, resolvers, input, typeMap0, config, entries, idx, err, call, first>>

\* astNode.name.value of a Document is a TypeError
PossiblyAddQuery ==
    /\ pc = "possiblyAddQuery"
    /\ IF entryType.kind = "Document"
       THEN Fail("TypeError")
       ELSE /\ typeMap' = possiblyAddQuery(entryType, typeMap, config)
            /\ pc' = "possiblyAddOrderingEnum"
            /\ UNCHANGED <<resolvers0, resolvers, input, typeMap0, config, entries, held, idx, err, call, first>>

PossiblyAddOrderingEnum ==
    /\ pc = "possiblyAddOrderingEnum"
    /\ typeMap' = possiblyAddOrderingEnum(entryType, typeMap, config)
    /\ pc' = "possiblyAddTypeInput"
    /\ UNCHANGED <<resolvers0, resolvers, input, typeMap0, config, entries, held, idx, err, call, first>>

PossiblyAddTypeInput ==
    /\ pc = "possiblyAddTypeInput"
    /\ typeMap' = possiblyAddTypeInput(entryType, typeMap, config)
    /\ pc' = "possiblyAddFilterInput"
    /\ UNCHANGED <<resolvers0, resolvers, input, typeMap0, config, entries, held, idx, err, call, first>>

PossiblyAddFilterInput ==
    /\ pc = "possiblyAddFilterInput"
    /\ typeMap' = possiblyAddFilterInput(entryType, typeMap, config)
    /\ pc' = "possiblyAddTypeMutations"
    /\ UNCHANGED <<resolvers0, resolvers, input, typeMap0, config, entries, held, idx, err, call, first>>

PossiblyAddTypeMutations ==
    /\ pc = "possiblyAddTypeMutations"
    /\ IF typeMutationsError(entryType, typeMap, config) # "none"
       THEN Fail(typeMutationsError(entryType, typeMap, config))
       ELSE /\ typeMap' = possiblyAddTypeMutations(entryType, typeMap, config)
            /\ pc' = "handleRelationFields"
            /\ UNCHANGED <<resolvers0, resolvers, input, typeMap0, config, entries, held, idx, err, call, first>>

\* a displaced definition is still bound to its entry when the entry comes later
HandleRelationFields ==
    /\ pc = "handleRelationFields"
    /\ LET done == handleRelationFields(entryType, typeMap, config)
           later == {entries[i] : i \in (idx + 1)..Len(entries)}
       IN  IF done.err # "none"
           THEN Fail(done.err)
           ELSE /\ typeMap' = done.tm
                /\ held' = [n \in (DOMAIN done.displaced \cap later) \ DOMAIN held |->
                                done.displaced[n]] @@ held
                /\ NextEntry
                /\ UNCHANGED <<resolvers0, resolvers, input, typeMap0, config, entries, err, call, first>>

AugmentQueryArguments ==
    /\ pc = "augmentQueryArguments"
    /\ typeMap' = augmentQueryArguments(typeMap, config)
    /\ pc' = "addDirectiveDeclarations"
    /\ UNCHANGED <<resolvers0, resolvers, input, typeMap0, config, entries, held, idx, err, call, first>>

AddDirectiveDeclarations ==
    /\ pc = "addDirectiveDeclarations"
    /\ typeMap' = addDirectiveDeclarations(typeMap)
    /\ pc' = "done"
    /\ UNCHANGED <<resolvers0, resolvers, input, typeMap0, config, entries, held, idx, err, call, first>>

\* the caller hands the returned type map to augmentTypeMap again
Reapply ==
    /\ pc = "done"
    /\ call = "first"
    /\ first' = typeMap
    /\ call' = "again"
    /\ pc' = "initializeOperationTypes"
    /\ entries' = <<>>
    /\ idx' = 0
    /\ UNCHANGED <<resolvers0, resolvers, input, typeMap0, typeMap, config, held, err>>

\* the caller augments the schema that states the same relationship as a
\* field-level relation
AugmentTwin ==
    /\ pc = "done"
    /\ call = "first"
    /\ HasTwin(input)
    /\ first' = typeMap
    /\ call' = "twin"
    /\ typeMap' = Schema(Twin(input))
    /\ config' = Config(Twin(input))
    /\ pc' = "initializeOperationTypes"
    /\ entries' = <<>>
    /\ idx' = 0
    /\ UNCHANGED <<resolvers0, resolvers, input, typeMap0, held, err>>

\* augmentedSchema: augmentResolvers(augmentedTypeMap, resolvers, config)
AugmentResolvers ==
    /\ pc = "done"
    /\ call = "first"
    /\ \E rs \in ResolverInputs :
        /\ resolvers0' = rs
        /\ IF augmentResolversThrows(typeMap, rs)
           THEN /\ err' = "TypeError"
                /\ pc' = "augmentResolversFailed"
                /\ resolvers' = resolvers
           ELSE /\ resolvers' = augmentResolvers(typeMap, rs)
                /\ pc' = "resolved"
                /\ err' = err
    /\ UNCHANGED <<input, typeMap0, typeMap, config, entries, held, idx, call, first>>

Next ==
    \/ InitializeOperationTypes
    \/ AddRelationTypeDirectives
    \/ AddTemporalTypes
    \/ SkipTemporalType
    \/ AugmentType
    \/ PossiblyAddQuery
    \/ PossiblyAddOrderingEnum
    \/ PossiblyAddTypeInput
    \/ PossiblyAddFilterInput
    \/ PossiblyAddTypeMutations
    \/ HandleRelationFields
    \/ AugmentQueryArguments
    \/ AddDirectiveDeclarations
    \/ AugmentResolvers
    \/ Reapply
    \/ AugmentTwin

Spec == Init /\ [][Next]_vars

(***************************************************************************)
(* Properties.  What the caller asked for is read off the input schema and *)
(* the configuration as handed in, not off the engine's own predicates.    *)
(***************************************************************************)
Finished == pc \in {"done", "failed"}

\* the node types of the input schema
NodeTypes0 == {n \in DOMAIN typeMap0.defs : isNodeType(typeMap0.defs[n])}

\* the caller excluded type T from an operation: the operation is switched off,
\* T is in its exclusion set, or T carries the ignore marker
ExcludedFrom(root, T) ==
    \/ Config(input)[root].isBool /\ ~Config(input)[root].bool
    \/ ~Config(input)[root].isBool /\ T \in Config(input)[root].exclude
    \/ hasDirective(typeMap0.defs[T].directives, "neo4j_ignore")

\* a type, or a root field, that the output has and the input had not
Generated(n) == Has(typeMap, n) /\ ~Has(typeMap0, n)
GeneratedField(root, f) ==
    /\ f \in createOperationMap(typeMap, root)
    /\ f \notin createOperationMap(typeMap0, root)
RootField(tm, root, f) ==
    fieldsOf(Lookup(tm, root))[IndexOf(fieldsOf(Lookup(tm, root)), f)]

\* C1 (as claimed): a second application of the pipeline to its own output
\* completes without error and returns an isomorphic type map: no type is added,
\* no field is added or duplicated, and no field gains or duplicates an argument
C1_Idempotence ==
    (call = "again" /\ Finished) =>
        /\ pc = "done"
        /\ DOMAIN typeMap.defs = DOMAIN first.defs
        /\ \A n \in DOMAIN first.defs :
            /\ n \in DOMAIN typeMap.defs
            /\ Names(typeMap.defs[n].fields) = Names(first.defs[n].fields)
            /\ \A i \in DOMAIN first.defs[n].fields :
                Names(typeMap.defs[n].fields[i].arguments)
                    = Names(first.defs[n].fields[i].arguments)

\* C2: for a node type excluded from query generation the output holds no
\* generated Query field of its name, no generated _<T>Filter and no generated
\* _<T>Ordering; for one excluded from mutation generation it holds no generated
\* Create<T>, Update<T> or Delete<T>
C2_PolicyRespect ==
    call = "first" =>
        \A T \in NodeTypes0 :
            /\ ExcludedFrom("query", T) =>
                /\ ~GeneratedField("Query", T)
                /\ ~Generated("_" \o T \o "Filter")
                /\ ~Generated("_" \o T \o "Ordering")
            /\ ExcludedFrom("mutation", T) =>
                \A a \in {"Create", "Update", "Delete"} :
                    ~GeneratedField("Mutation", a \o T)

\* C2 witness: Movie is excluded from both operations while Person is not, and
\* the finished output holds Person's generated query, filter and mutation
C2_Witness ==
    /\ call = "first" /\ pc = "done"
    /\ ExcludedFrom("query", "Movie") /\ ExcludedFrom("mutation", "Movie")
    /\ ~ExcludedFrom("query", "Person") /\ ~ExcludedFrom("mutation", "Person")
    /\ GeneratedField("Query", "Person")
    /\ Generated("_PersonFilter")
    /\ GeneratedField("Mutation", "CreatePerson")

\* no field of T is a required, non-list, ID-typed field
NoPrimaryKey(T) ==
    \A i \in DOMAIN typeMap0.defs[T].fields :
        ~(typeMap0.defs[T].fields[i].type = NonNullOf(Named("ID")))

\* C3 (as claimed): for a mutation-enabled node type without primary key the
\* augmentation completes normally, generates neither Update<T> nor Delete<T>,
\* and the output has Create<T>
C3_PrimaryKeyGating ==
    (call = "first" /\ Finished) =>
        \A T \in NodeTypes0 :
            (~ExcludedFrom("mutation", T) /\ NoPrimaryKey(T)) =>
                /\ pc = "done"
                /\ ~GeneratedField("Mutation", "Update" \o T)
                /\ ~GeneratedField("Mutation", "Delete" \o T)
                /\ ("Create" \o T) \in createOperationMap(typeMap, "Mutation")

\* the Add / Remove mutation of Person.movies in a type map (absent: Undefined's
\* empty field)
RelationMutationNames == {"AddPersonMovies", "RemovePersonMovies"}
HasRelationMutation(tm, n) == n \in createOperationMap(tm, "Mutation")
WithoutData(args) == SelectSeq(args, LAMBDA a : a.name # "data")

\* C4 (as claimed): the relationship-type notation and the field-level notation
\* of the same edge (same name, endpoints, owning type and field) yield the same
\* Add / Remove mutation names, the same argument lists and the same
\* MutationMeta values
C4_NotationEquivalence ==
    (call = "twin" /\ pc = "done") =>
        \A n \in RelationMutationNames :
            /\ HasRelationMutation(typeMap, n) <=> HasRelationMutation(first, n)
            /\ HasRelationMutation(first, n) =>
                /\ RootField(typeMap, "Mutation", n).arguments
                        = RootField(first, "Mutation", n).arguments
                /\ RootField(typeMap, "Mutation", n).directives
                        = RootField(first, "Mutation", n).directives

\* C4 (amended): the two notations yield the same mutation names, the same
\* from / to arguments and the same MutationMeta values; the relationship-type
\* notation has one argument more, data on the Add mutation, exactly when the
\* relationship type declares a property field
C4_NotationEquivalenceUpToData ==
    (call = "twin" /\ pc = "done") =>
        \A n \in RelationMutationNames :
            /\ HasRelationMutation(typeMap, n) <=> HasRelationMutation(first, n)
            /\ HasRelationMutation(first, n) =>
                /\ RootField(typeMap, "Mutation", n).arguments
                        = WithoutData(RootField(first, "Mutation", n).arguments)
                /\ RootField(typeMap, "Mutation", n).directives
                        = RootField(first, "Mutation", n).directives
                /\ (RootField(typeMap, "Mutation", n).arguments
                        # RootField(first, "Mutation", n).arguments)
                    => (input.props /\ n = "AddPersonMovies")

\* C4 witness: both notations of an edge into Person (the field-level one is
\* inbound) were augmented and both generated the Add mutation
C4_Witness ==
    /\ call = "twin" /\ pc = "done"
    /\ input.relFrom = "Movie" /\ input.relTo = "Person"
    /\ GeneratedField("Mutation", "AddPersonMovies")
    /\ HasRelationMutation(first, "AddPersonMovies")
    /\ RootField(typeMap, "Mutation", "AddPersonMovies").directives
            = <<MutationMeta(Twin(input).relName, "Movie", "Person")>>

\* field number i of input type T has a relationship type with from = to as value
ReflexiveField(T, i) ==
    LET f == typeMap0.defs[T].fields[i]
        r == Lookup(typeMap0, f.type.name)
    IN  /\ ~getFieldDirective(f, "neo4j_ignore")
        /\ r.kind = "ObjectTypeDefinition"
        /\ hasField(r, "from") /\ hasField(r, "to")
        /\ r.fields[IndexOf(r.fields, "from")].type.name
                = r.fields[IndexOf(r.fields, "to")].type.name

\* C5 (as claimed): after augmentation a field whose value is a reflexive
\* relationship type has the type _<Type><Field>Directions, that type exists with
\* a from and a to field of the payload type _<Type><Field>, and the field has no
\* arguments; also when _<Type><Field> was in the map beforehand
C5_ReflexiveRelationship ==
    (call = "first" /\ pc = "done") =>
        \A T \in NodeTypes0 : \A i \in DOMAIN typeMap0.defs[T].fields :
            ReflexiveField(T, i) =>
                LET f == typeMap.defs[T].fields[i]
                    payload == "_" \o T \o capitalize(f.name)
                    wrapper == Lookup(typeMap, payload \o "Directions")
                IN  /\ f.type = Named(payload \o "Directions")
                    /\ Names(wrapper.fields) = <<"from", "to">>
                    /\ \A j \in DOMAIN wrapper.fields :
                            wrapper.fields[j].type.name = payload
                    /\ f.arguments = <<>>

\* the caller left temporal kind K switched on: config.temporal is absent, or
\* true, or an object that does not give K's key as false
TemporalKindOn(K) ==
    \E i \in DOMAIN TemporalKinds :
        /\ TemporalKinds[i] = K
        /\ CASE input.temporal.kind = "boolean" -> input.temporal.bool
             [] input.temporal.kind = "object"
                    /\ TemporalKeys[i] \in DOMAIN input.temporal.given
                    -> input.temporal.given[TemporalKeys[i]]
             [] OTHER -> TRUE

\* the temporal stage of the pipeline has run
AfterTemporal ==
    pc \notin {"initializeOperationTypes", "addRelationTypeDirectives", "addTemporalTypes"}

\* the object types the user wrote (the structured temporal types are the
\* engine's own)
ObjectTypes0 ==
    {n \in DOMAIN typeMap0.defs :
        typeMap0.defs[n].kind = "ObjectTypeDefinition" /\ ~isTemporalType(n)}

\* C6: once the temporal stage has run, every field whose leaf type is an
\* enabled temporal scalar K names _Neo4j<K> as its leaf, under the same list /
\* non-null layers in the same order
C6_TemporalFields ==
    (call = "first" /\ AfterTemporal) =>
        \A n \in ObjectTypes0 : \A i \in DOMAIN typeMap0.defs[n].fields :
            LET f == typeMap0.defs[n].fields[i]
            IN  TemporalKindOn(f.type.name) =>
                    typeMap.defs[n].fields[i].type
                        = [name |-> "_Neo4j" \o f.type.name, wrap |-> f.type.wrap]

\* C6 witness: born: [DateTime!]! has become born: [_Neo4jDateTime!]! in a
\* finished output
C6_Witness ==
    /\ call = "first" /\ pc = "done"
    /\ input.tKind = "DateTime" /\ TemporalKindOn("DateTime")
    /\ input.tWrap = <<"NonNull", "List", "NonNull">>
    /\ \E i \in DOMAIN typeMap.defs["Person"].fields :
        /\ typeMap.defs["Person"].fields[i].name = "born"
        /\ typeMap.defs["Person"].fields[i].type
                = NonNullOf(ListOf(NonNullOf(Named("_Neo4jDateTime"))))

\* C7 (as claimed): once the temporal stage has run, every field argument whose
\* leaf type is an enabled temporal scalar K names _Neo4j<K>Input as its leaf,
\* bare or under list / non-null layers, and never _Neo4j<K>
C7_TemporalArguments ==
    (call = "first" /\ AfterTemporal) =>
        \A n \in ObjectTypes0 : \A i \in DOMAIN typeMap0.defs[n].fields :
            \A j \in DOMAIN typeMap0.defs[n].fields[i].arguments :
                LET a == typeMap0.defs[n].fields[i].arguments[j]
                IN  TemporalKindOn(a.type.name) =>
                        typeMap.defs[n].fields[i].arguments[j].type
                            = [name |-> "_Neo4j" \o a.type.name \o "Input",
                               wrap |-> a.type.wrap]

\* the names the pipeline can derive for the types Person, Movie and ActedIn and
\* for the field Person.movies
SynthesizableNames ==
    {"_" \o T \o s : T \in {"Person", "Movie", "ActedIn"},
                     s \in {"Filter", "Ordering", "Input"}}
    \cup {"_PersonMovies", "_PersonMoviesDirections", "_AddPersonMoviesPayload",
          "_RemovePersonMoviesPayload"}
    \cup {"_Neo4j" \o TemporalKinds[i] \o s : i \in DOMAIN TemporalKinds, s \in {"", "Input"}}

\* the definition under name n is still the one the user wrote: same kind, same
\* values, the user's fields in place
UserDefinitionKept(n) ==
    LET a == typeMap0.defs[n]
        b == Lookup(typeMap, n)
    IN  /\ b.kind = a.kind
        /\ b.values = a.values
        /\ \A i \in DOMAIN a.fields :
            i \in DOMAIN b.fields /\ b.fields[i].name = a.fields[i].name

\* C8 (as claimed): a definition the input holds under a name the pipeline can
\* synthesize is still the stored definition after augmentation
C8_UserDefinitionsWin ==
    (call = "first" /\ pc = "done") =>
        \A n \in SynthesizableNames \cap DOMAIN typeMap0.defs : UserDefinitionKept(n)

\* the edge the input declares at Person.movies, as the caller wrote it: the
\* endpoints of the relationship type, or owner and value type of the field-level
\* relation, swapped when its direction is inbound
EdgeFrom ==
    IF input.rel = "type" THEN input.relFrom
    ELSE IF input.dir \in {"IN", "in"} THEN input.relTo ELSE "Person"
EdgeTo ==
    IF input.rel = "type" THEN input.relTo
    ELSE IF input.dir \in {"IN", "in"} THEN "Person" ELSE input.relTo
EdgeName ==
    IF input.rel = "type"
    THEN (IF input.named THEN "PLAYED"
          ELSE IF input.relType = "ActedIn" THEN "ACTED_IN"
          ELSE transformRelationName(typeMap0.defs[input.relType]))
    ELSE input.relName
EdgeHasProps == input.rel = "type" /\ input.props
EdgePermitted == ~ExcludedFrom("mutation", EdgeFrom) /\ ~ExcludedFrom("mutation", EdgeTo)
EndpointArguments ==
    <<Arg("from", NonNullOf(Named("_" \o EdgeFrom \o "Input"))),
      Arg("to", NonNullOf(Named("_" \o EdgeTo \o "Input")))>>

\* C9 (as claimed): when both endpoints are mutation-permitted the output has
\* both Add and Remove, generated with from: _<From>Input! and to: _<To>Input!;
\* Add has a data argument, and an optional one, iff the relationship type
\* declares a property field; Remove has none; when an endpoint is excluded
\* neither is generated
C9_RelationMutationArguments ==
    (call = "first" /\ pc = "done" /\ input.rel # "none") =>
        IF EdgePermitted
        THEN \A n \in RelationMutationNames :
                /\ HasRelationMutation(typeMap, n)
                /\ GeneratedField("Mutation", n) =>
                    LET a == RootField(typeMap, "Mutation", n).arguments
                    IN  /\ SubSeq(a, 1, 2) = EndpointArguments
                        /\ n = "RemovePersonMovies" => ~hasArgument(a, "data")
                        /\ n = "AddPersonMovies" =>
                            ((/\ hasArgument(a, "data")
                              /\ ~isNonNullType(a[IndexOf(a, "data")])) <=> EdgeHasProps)
        ELSE \A n \in RelationMutationNames : ~GeneratedField("Mutation", n)

\* C9 (amended): when both endpoints are mutation-permitted the output has both
\* Add and Remove, and each one the input did not already define has exactly
\* from: _<From>Input!, to: _<To>Input! and, on Add only and iff the
\* relationship type declares a property field, the required argument
\* data: _<RelationshipType>Input!; when an endpoint is excluded neither is
\* generated
C9_RelationMutationArgumentsRequiredData ==
    (call = "first" /\ pc = "done" /\ input.rel # "none") =>
        IF EdgePermitted
        THEN \A n \in RelationMutationNames :
                /\ HasRelationMutation(typeMap, n)
                /\ GeneratedField("Mutation", n) =>
                    RootField(typeMap, "Mutation", n).arguments
                        = EndpointArguments
                            \o (IF n = "AddPersonMovies" /\ EdgeHasProps
                                THEN <<Arg("data", NonNullOf(Named("_" \o input.relType \o "Input")))>>
                                ELSE <<>>)
        ELSE \A n \in RelationMutationNames : ~GeneratedField("Mutation", n)

\* C9 witness: a relationship type with a property field between permitted
\* endpoints: Add was generated with three arguments, Remove with two
C9_Witness ==
    /\ call = "first" /\ pc = "done"
    /\ EdgeHasProps /\ EdgePermitted
    /\ GeneratedField("Mutation", "AddPersonMovies")
    /\ GeneratedField("Mutation", "RemovePersonMovies")
    /\ Names(RootField(typeMap, "Mutation", "AddPersonMovies").arguments)
            = <<"from", "to", "data">>
    /\ Names(RootField(typeMap, "Mutation", "RemovePersonMovies").arguments)
            = <<"from", "to">>

\* C10: every generated Add / Remove mutation carries exactly one MutationMeta
\* marker, with the keys relationship, from and to holding the relationship name
\* and the canonical endpoints (for a field-level relation the owner is from
\* unless the direction is IN / in), and its from / to arguments name the input
\* types of the same endpoints
C10_MutationMetaContract ==
    (call = "first" /\ input.rel # "none") =>
        \A n \in RelationMutationNames :
            GeneratedField("Mutation", n) =>
                LET f == RootField(typeMap, "Mutation", n)
                IN  /\ Count(f.directives, "MutationMeta") = 1
                    /\ getDirective(f.directives, "MutationMeta").args
                            = [relationship |-> EdgeName, from |-> EdgeFrom, to |-> EdgeTo]
                    /\ f.arguments[1].name = "from"
                    /\ f.arguments[1].type.name = "_" \o EdgeFrom \o "Input"
                    /\ f.arguments[2].name = "to"
                    /\ f.arguments[2].type.name = "_" \o EdgeTo \o "Input"

\* C10 witness: an inbound field-level relation from Person to Movie: the
\* generated Add mutation records Movie as from and Person as to
C10_Witness ==
    /\ call = "first" /\ pc = "done"
    /\ input.rel = "field" /\ input.dir \in {"IN", "in"} /\ input.relTo = "Movie"
    /\ GeneratedField("Mutation", "AddPersonMovies")
    /\ RootField(typeMap, "Mutation", "AddPersonMovies").directives
            = <<MutationMeta("ACTED_IN", "Movie", "Person")>>

\* the relationship types of the input: object types with a from and a to field
RelationshipTypes0 ==
    {n \in DOMAIN typeMap0.defs :
        /\ typeMap0.defs[n].kind = "ObjectTypeDefinition"
        /\ hasField(typeMap0.defs[n], "from")
        /\ hasField(typeMap0.defs[n], "to")}

\* the marker relationship type n is to carry: the name the user's marker gives
\* (else the name derived from the type name), and the types of its from / to
\* fields
ExpectedMarker(n) ==
    LET d == typeMap0.defs[n]
        given == IF hasDirective(d.directives, "relation")
                 THEN getDirective(d.directives, "relation").args ELSE NoArgs
    IN  [name |-> IF "name" \in DOMAIN given THEN given.name
                  ELSE CASE n = "ActedIn" -> "ACTED_IN"
                         [] OTHER -> transformRelationName(d),
         from |-> d.fields[IndexOf(d.fields, "from")].type.name,
         to |-> d.fields[IndexOf(d.fields, "to")].type.name]

HasMarker(d, args) ==
    /\ Count(d.directives, "relation") = 1
    /\ getDirective(d.directives, "relation").args = args

OneSided0 ==
    \E n \in DOMAIN typeMap0.defs :
        /\ typeMap0.defs[n].kind = "ObjectTypeDefinition"
        /\ ("from" \in Range(Names(typeMap0.defs[n].fields)))
                # ("to" \in Range(Names(typeMap0.defs[n].fields)))
OneSidedErrors == {"to without from", "from without to"}

\* C12: when an object type of the input has from without to, or to without
\* from, the call gets no further than the normalisation of the markers, where
\* it fails with the one-sided error, and never returns; otherwise that error
\* is never raised
C12_OneSidedIsFatal ==
    call = "first" =>
        IF OneSided0
        THEN /\ pc \in {"initializeOperationTypes", "addRelationTypeDirectives", "failed"}
             /\ pc = "failed" => err \in OneSidedErrors
        ELSE err \notin OneSidedErrors

\* C12 witness: a relationship type with a from field only made the call fail
C12_Witness ==
    /\ call = "first" /\ pc = "failed"
    /\ input.sides = "from" /\ OneSided0
    /\ err = "from without to"

\* field number i of input type T has a relationship type as value whose
\* endpoints are both other types than T
ForeignRelationField(T, i) ==
    LET f == typeMap0.defs[T].fields[i]
        r == Lookup(typeMap0, f.type.name)
    IN  /\ ~getFieldDirective(f, "neo4j_ignore")
        /\ f.type.name \in RelationshipTypes0
        /\ r.fields[IndexOf(r.fields, "from")].type.name # T
        /\ r.fields[IndexOf(r.fields, "to")].type.name # T

\* C13 (as claimed): when a field of node type T has a relationship type as
\* value and T is neither its from nor its to, augmentation fails with an error,
\* under every configuration and also when from = to
C13_DirectedFieldsInvolveOwner ==
    (call = "first" /\ Finished) =>
        \A T \in NodeTypes0 : \A i \in DOMAIN typeMap0.defs[T].fields :
            ForeignRelationField(T, i) => (pc = "failed" /\ err # "none")

\* the fields of the augmented type T that carry a value: not ignored, and of a
\* scalar, enum or structured temporal type
ValueFields(T) ==
    {f \in Range(typeMap.defs[T].fields) :
        /\ ~hasDirective(f.directives, "neo4j_ignore")
        /\ \/ f.type.name \in {"ID", "String", "Int", "Float", "Boolean"}
           \/ Lookup(typeMap0, f.type.name).kind = "EnumTypeDefinition"
           \/ isTemporalType(f.type.name)}

\* one argument per value field, then first, offset, orderBy and filter
ExpectedQueryArguments(T) ==
    {Arg(f.name, Named(IF isTemporalType(f.type.name) THEN f.type.name \o "Input"
                       ELSE f.type.name)) : f \in ValueFields(T)}
    \cup {Arg("first", Named("Int")), Arg("offset", Named("Int")),
          Arg("orderBy", ListOf(Named("_" \o T \o "Ordering"))),
          Arg("filter", Named("_" \o T \o "Filter"))}

\* C14 (as claimed): after augmentation Query has exactly one field named after
\* each query-enabled node type T; a generated one returns [T] and has one
\* argument per value field of T plus first, offset, orderBy: [_TOrdering] and
\* filter: _TFilter, and the generated _TOrdering holds f_asc and f_desc for
\* every non-list value field f; a Query field the input had is kept
C14_QueryFieldGeneration ==
    (call = "first" /\ pc = "done") =>
        \A T \in NodeTypes0 \ SynthesizableNames : ~ExcludedFrom("query", T) =>
            /\ Count(typeMap.defs["Query"].fields, T) = 1
            /\ IF T \in createOperationMap(typeMap0, "Query")
               THEN /\ RootField(typeMap, "Query", T).type = RootField(typeMap0, "Query", T).type
                    /\ Range(RootField(typeMap0, "Query", T).arguments)
                            \subseteq Range(RootField(typeMap, "Query", T).arguments)
               ELSE /\ RootField(typeMap, "Query", T).type = ListOf(Named(T))
                    /\ Range(RootField(typeMap, "Query", T).arguments)
                            = ExpectedQueryArguments(T)
                    /\ Len(RootField(typeMap, "Query", T).arguments)
                            = Cardinality(ExpectedQueryArguments(T))
                    /\ Generated("_" \o T \o "Ordering") =>
                        \A f \in ValueFields(T) : f.type.wrap = <<>> =>
                            {f.name \o "_asc", f.name \o "_desc"}
                                \subseteq Range(typeMap.defs["_" \o T \o "Ordering"].values)

\* the _id fields of a definition
NodeIdFields(astNode) == SelectSeq(astNode.fields, LAMBDA f : f.name = "_id")

\* the input declares an _id on T and marks it to be ignored
DeclaresIgnoredId(T) ==
    \E i \in DOMAIN typeMap0.defs[T].fields :
        /\ typeMap0.defs[T].fields[i].name = "_id"
        /\ hasDirective(typeMap0.defs[T].fields[i].directives, "neo4j_ignore")

\* C15 (as claimed): after augmentation every query-enabled node type has exactly
\* one field _id: String without arguments and directives, whatever _id the input
\* declared; a node type excluded from query keeps the _id fields it declared
C15_NodeIdInjection ==
    (call = "first" /\ pc = "done") =>
        \A T \in NodeTypes0 \ SynthesizableNames :
            IF ExcludedFrom("query", T)
            THEN NodeIdFields(typeMap.defs[T]) = NodeIdFields(typeMap0.defs[T])
            ELSE NodeIdFields(typeMap.defs[T]) = <<Field("_id", Named("String"), <<>>, <<>>)>>

\* C15 (amended): a declared _id that carries the ignore marker is left as
\* declared; every other query-enabled node type has the one injected _id
C15_NodeIdInjectionUnlessIgnored ==
    (call = "first" /\ pc = "done") =>
        \A T \in NodeTypes0 \ SynthesizableNames :
            IF ExcludedFrom("query", T) \/ DeclaresIgnoredId(T)
            THEN NodeIdFields(typeMap.defs[T]) = NodeIdFields(typeMap0.defs[T])
            ELSE NodeIdFields(typeMap.defs[T]) = <<Field("_id", Named("String"), <<>>, <<>>)>>

\* C15 witness: Person declared `_id: ID! @cypher`, is query-enabled, and the
\* finished output holds the injected _id in its place; Movie declared none and
\* has the injected one too
C15_Witness ==
    /\ call = "first" /\ pc = "done"
    /\ input.idField = "ID"
    /\ ~ExcludedFrom("query", "Person")
    /\ NodeIdFields(typeMap0.defs["Person"]) # <<>>
    /\ NodeIdFields(typeMap.defs["Person"]) = <<Field("_id", Named("String"), <<>>, <<>>)>>
    /\ NodeIdFields(typeMap0.defs["Movie"]) = <<>>
    /\ NodeIdFields(typeMap.defs["Movie"]) = <<Field("_id", Named("String"), <<>>, <<>>)>>

\* the fields of the augmented type T that a mutation can set: value fields
\* that are no system field and carry no computed marker
EligibleFields(T) ==
    SelectSeq(typeMap.defs[T].fields,
        LAMBDA f : /\ f \in ValueFields(T)
                   /\ f.name \notin {"_id", "from", "to"}
                   /\ ~hasDirective(f.directives, "cypher"))

\* the type of an argument for a field type: the input twin of a temporal type
ArgumentType(t) == IF isTemporalType(t.name) THEN [t EXCEPT !.name = @ \o "Input"] ELSE t

WithoutOuterNonNull(t) ==
    IF t.wrap # <<>> /\ Head(t.wrap) = "NonNull" THEN [t EXCEPT !.wrap = Tail(@)] ELSE t

\* the primary key, required, then every other eligible field, optional
ExpectedUpdateArguments(T) ==
    LET pk == getPrimaryKey(typeMap0.defs[T])
        others == SelectSeq(EligibleFields(T), LAMBDA f : f.name # pk.name)
    IN  <<Arg(pk.name, NonNullOf(Named(pk.type.name)))>>
            \o [i \in DOMAIN others |->
                    Arg(others[i].name, ArgumentType(WithoutOuterNonNull(others[i].type)))]

\* the node types the Update statement is about
UpdateTypes0 ==
    {T \in NodeTypes0 \ SynthesizableNames :
        /\ ~ExcludedFrom("mutation", T)
        /\ hasPrimaryKey(typeMap0.defs[T])
        /\ ("Update" \o T) \notin createOperationMap(typeMap0, "Mutation")}

\* C16 (as claimed): for a mutation-enabled node type with a primary key and no
\* declared Update<T>, the output has one Update<T> whose arguments are the
\* primary key, non-null, then every other eligible field with its outer
\* non-null removed, also when the primary key is the only eligible field
C16_UpdateMutationShape ==
    (call = "first" /\ pc = "done") =>
        \A T \in UpdateTypes0 :
            /\ Count(typeMap.defs["Mutation"].fields, "Update" \o T) = 1
            /\ RootField(typeMap, "Mutation", "Update" \o T).arguments
                    = ExpectedUpdateArguments(T)

\* C16 (amended): the same when T has an eligible field besides the primary key;
\* when the primary key is the only eligible field, no Update<T> is generated
C16_UpdateMutationShapeWithOtherFields ==
    (call = "first" /\ pc = "done") =>
        \A T \in UpdateTypes0 :
            IF Len(ExpectedUpdateArguments(T)) > 1
            THEN /\ Count(typeMap.defs["Mutation"].fields, "Update" \o T) = 1
                 /\ RootField(typeMap, "Mutation", "Update" \o T).arguments
                        = ExpectedUpdateArguments(T)
            ELSE ("Update" \o T) \notin createOperationMap(typeMap, "Mutation")

\* C16 witness: Person has the primary key id and a required temporal field
\* born, and the generated UpdatePerson takes id: ID! first and born without
\* its outer non-null
C16_Witness ==
    /\ call = "first" /\ pc = "done"
    /\ "Person" \in UpdateTypes0
    /\ GeneratedField("Mutation", "UpdatePerson")
    /\ RootField(typeMap, "Mutation", "UpdatePerson").arguments[1] = Arg("id", NonNullOf(Named("ID")))
    /\ \E f \in Range(typeMap.defs["Person"].fields) :
        /\ f.name = "born" /\ f.type.wrap # <<>> /\ Head(f.type.wrap) = "NonNull"
        /\ Arg("born", ArgumentType(WithoutOuterNonNull(f.type)))
                \in Range(RootField(typeMap, "Mutation", "UpdatePerson").arguments)

\* the eligible fields of T that are a required, non-list ID
RequiredIdFields(T) ==
    SelectSeq(EligibleFields(T), LAMBDA f : f.type = NonNullOf(Named("ID")))

\* the node types the Create statement is about, with a generated Create<T>
CreateTypes0 ==
    {T \in NodeTypes0 \ SynthesizableNames :
        /\ ~ExcludedFrom("mutation", T)
        /\ GeneratedField("Mutation", "Create" \o T)}

CreateArguments(T) == RootField(typeMap, "Mutation", "Create" \o T).arguments

\* C17 (as claimed): a generated Create<T> has one argument for every eligible
\* field of T, and when T has exactly one required non-list ID field the
\* argument for it is required
C17_CreateMutationShape ==
    (call = "first" /\ pc = "done") =>
        \A T \in CreateTypes0 :
            /\ Names(CreateArguments(T)) = Names(EligibleFields(T))
            /\ Len(RequiredIdFields(T)) = 1 =>
                \A i \in DOMAIN CreateArguments(T) :
                    CreateArguments(T)[i].name = RequiredIdFields(T)[1].name
                        => CreateArguments(T)[i].type = NonNullOf(Named("ID"))

\* C17 (amended): the argument for the one required non-list ID field is
\* optional in Create, of type ID without the non-null wrapper
C17_CreateMutationShapeOptionalId ==
    (call = "first" /\ pc = "done") =>
        \A T \in CreateTypes0 :
            /\ Names(CreateArguments(T)) = Names(EligibleFields(T))
            /\ Len(RequiredIdFields(T)) = 1 =>
                \A i \in DOMAIN CreateArguments(T) :
                    CreateArguments(T)[i].name = RequiredIdFields(T)[1].name
                        => CreateArguments(T)[i].type = Named("ID")

\* C17 witness: Person declares id: ID! among numbers, a flag, an enum and a
\* list of strings, and the generated CreatePerson takes them all, id first
C17_Witness ==
    /\ call = "first" /\ pc = "done"
    /\ input.rich
    /\ "Person" \in CreateTypes0
    /\ Len(RequiredIdFields("Person")) = 1
    /\ CreateArguments("Person")[1].name = "id"
    /\ {"age", "role", "tags"} \subseteq Range(Names(CreateArguments("Person")))

\* the caller handed over a resolver for field f of type t
Supplied(t, f) ==
    /\ resolvers0.defined
    /\ t \in DOMAIN resolvers0.types
    /\ f \in DOMAIN resolvers0.types[t]

\* C18: after augmentResolvers every field of the augmented Query and Mutation
\* types has a resolver under its name, the caller's own where one was supplied
\* and the default delegate otherwise, and every interface type has a
\* __resolveType that returns the value's FRAGMENT_TYPE
C18_ResolverBinding ==
    pc = "resolved" =>
        /\ \A root \in {"Query", "Mutation"} : \A f \in createOperationMap(typeMap, root) :
            /\ resolvers.defined
            /\ root \in DOMAIN resolvers.types
            /\ f \in DOMAIN resolvers.types[root]
            /\ resolvers.types[root][f] =
                    IF Supplied(root, f) THEN resolvers0.types[root][f] ELSE "neo4jgraphql"
        /\ \A n \in DOMAIN typeMap.defs :
            typeMap.defs[n].kind = "InterfaceTypeDefinition" =>
                /\ n \in DOMAIN resolvers.types
                /\ "__resolveType" \in DOMAIN resolvers.types[n]
                /\ resolvers.types[n]["__resolveType"] = "FRAGMENT_TYPE"

\* C18 witness: the caller supplied a resolver for CreatePerson and resolvers of
\* its own for the interface Named; after augmentResolvers CreatePerson is still
\* the caller's, the generated UpdatePerson and the Query field Person have the
\* default delegate, and Named has the engine's __resolveType
C18_Witness ==
    /\ pc = "resolved"
    /\ input.iface
    /\ Supplied("Mutation", "CreatePerson")
    /\ Supplied("Named", "__resolveType")
    /\ GeneratedField("Mutation", "UpdatePerson")
    /\ GeneratedField("Query", "Person")
    /\ resolvers.types["Mutation"]["CreatePerson"] = "user"
    /\ resolvers.types["Mutation"]["UpdatePerson"] = "neo4jgraphql"
    /\ resolvers.types["Query"]["Person"] = "neo4jgraphql"
    /\ resolvers.types["Named"]["__resolveType"] = "FRAGMENT_TYPE"

\* every operator suffix a filter type can carry
OperatorSuffixes ==
    {"", "_not", "_in", "_not_in", "_contains", "_not_contains", "_starts_with",
     "_not_starts_with", "_ends_with", "_not_ends_with", "_lt", "_lte", "_gt", "_gte",
     "_some", "_none", "_single", "_every"}

\* the fields of input type T that carry the marker k (a declared _id aside)
MarkedFields(T, k) ==
    {f \in Range(typeMap0.defs[T].fields) : f.name # "_id" /\ hasDirective(f.directives, k)}

\* field f of T contributes nothing to the generated filter type of T
NoFilterOperator(T, f) ==
    Generated("_" \o T \o "Filter") =>
        \A s \in OperatorSuffixes :
            (f.name \o s) \notin Range(Names(typeMap.defs["_" \o T \o "Filter"].fields))

\* ... nothing to the generated ordering enum of T
NoOrderingValue(T, f) ==
    Generated("_" \o T \o "Ordering") =>
        \A s \in {"_asc", "_desc"} :
            (f.name \o s) \notin Range(typeMap.defs["_" \o T \o "Ordering"].values)

\* ... and no argument to the generated Create<T> and Update<T>
NoMutationArgument(T, f) ==
    \A a \in {"Create", "Update"} :
        GeneratedField("Mutation", a \o T) =>
            f.name \notin Range(Names(RootField(typeMap, "Mutation", a \o T).arguments))

\* C19 (as claimed): a field of a node type that carries neo4j_ignore or cypher
\* contributes no operator to _<T>Filter, no value to _<T>Ordering and no
\* argument to Create<T> or Update<T>
C19_ComputedFieldsExcluded ==
    (call = "first" /\ pc = "done") =>
        \A T \in NodeTypes0 \ SynthesizableNames :
            \A k \in {"neo4j_ignore", "cypher"} : \A f \in MarkedFields(T, k) :
                /\ NoFilterOperator(T, f)
                /\ NoOrderingValue(T, f)
                /\ NoMutationArgument(T, f)

\* the operators of a category: fields <f><suffix> of value type v, a list of
\* required values for the membership operators
Operators(f, v, suffixes) ==
    {Plain(f \o s, IF s \in {"_in", "_not_in"} THEN ListOf(NonNullOf(Named(v))) ELSE Named(v)) :
        s \in suffixes}

EqualityAndMembership == {"", "_not", "_in", "_not_in"}

\* what field f of the input type T is to contribute to _<T>Filter
ExpectedOperators(f) ==
    LET v == f.type.name
        list == "List" \in Range(f.type.wrap)
        relation ==
            /\ hasDirective(f.directives, "relation")
            /\ v \in NodeTypes0
            /\ ~ExcludedFrom("query", v)
    IN  IF \/ hasDirective(f.directives, "neo4j_ignore")
           \/ hasDirective(f.directives, "cypher")
           \/ f.name \in {"_id", "from", "to"}
        THEN {}
        ELSE IF relation
        THEN Operators(f.name, "_" \o v \o "Filter",
                EqualityAndMembership
                    \cup (IF list THEN {"_some", "_none", "_single", "_every"} ELSE {}))
        ELSE IF list THEN {}
        ELSE IF v \in {"ID", "String"}
        THEN Operators(f.name, v,
                EqualityAndMembership
                    \cup {"_contains", "_not_contains", "_starts_with", "_not_starts_with",
                          "_ends_with", "_not_ends_with"})
        ELSE IF v \in {"Int", "Float"}
        THEN Operators(f.name, v, EqualityAndMembership \cup {"_lt", "_lte", "_gt", "_gte"})
        ELSE IF v = "Boolean" THEN Operators(f.name, v, {"", "_not"})
        ELSE IF Lookup(typeMap0, v).kind = "EnumTypeDefinition"
        THEN Operators(f.name, v, EqualityAndMembership)
        ELSE {}

ExpectedFilterFields(T) ==
    {Plain("AND", ListOf(Named("_" \o T \o "Filter"))),
     Plain("OR", ListOf(Named("_" \o T \o "Filter")))}
    \cup UNION {ExpectedOperators(f) : f \in Range(typeMap0.defs[T].fields)}

C20_WitnessExcludedTarget ==
    /\ call = "first" /\ pc = "done"
    /\ input.rel = "field"
    /\ ~ExcludedFrom("query", "Person") /\ ExcludedFrom("query", "Movie")
    /\ Generated("_PersonFilter")
    /\ "id_in" \in Range(Names(typeMap.defs["_PersonFilter"].fields))
    /\ "movies" \notin Range(Names(typeMap.defs["_PersonFilter"].fields))

\* the property fields the input relationship type declares
PropertyFields0 ==
    IF input.rel = "type"
    THEN {f \in Range(typeMap0.defs[input.relType].fields) : f.name \notin {"from", "to"}}
    ELSE {}

\* the payload type of a generated relationship mutation, itself generated
GeneratedPayload(a) ==
    /\ GeneratedField("Mutation", a \o "PersonMovies")
    /\ Generated("_" \o a \o "PersonMoviesPayload")

PayloadFields(a) == typeMap.defs["_" \o a \o "PersonMoviesPayload"].fields

\* C21 (as claimed): the payload type of every generated relationship mutation,
\* Add and Remove alike, has from typed as the from endpoint, to typed as the
\* to endpoint, and every property field of the relationship type
C21_PayloadContents ==
    (call = "first" /\ pc = "done" /\ input.rel # "none") =>
        \A a \in {"Add", "Remove"} :
            GeneratedPayload(a) =>
                /\ Plain("from", Named(EdgeFrom)) \in Range(PayloadFields(a))
                /\ Plain("to", Named(EdgeTo)) \in Range(PayloadFields(a))
                /\ \A p \in PropertyFields0 : Plain(p.name, p.type) \in Range(PayloadFields(a))

\* C21 (amended): both payload types have from and to typed as the endpoints;
\* the Add payload has every property field of the relationship type besides,
\* the Remove payload has from and to only
C21_PayloadContentsByAction ==
    (call = "first" /\ pc = "done" /\ input.rel # "none") =>
        /\ GeneratedPayload("Add") =>
            /\ SubSeq(PayloadFields("Add"), 1, 2)
                    = <<Plain("from", Named(EdgeFrom)), Plain("to", Named(EdgeTo))>>
            /\ Range(PayloadFields("Add"))
                    = {Plain("from", Named(EdgeFrom)), Plain("to", Named(EdgeTo))}
                        \cup {Plain(p.name, p.type) : p \in PropertyFields0}
        /\ GeneratedPayload("Remove") =>
            PayloadFields("Remove")
                = <<Plain("from", Named(EdgeFrom)), Plain("to", Named(EdgeTo))>>

\* C21 witness: the relationship type declares the property roles; both
\* payload types were generated, the Add payload has roles, the Remove payload
\* has not
C21_Witness ==
    /\ call = "first" /\ pc = "done"
    /\ PropertyFields0 # {}
    /\ GeneratedPayload("Add") /\ GeneratedPayload("Remove")
    /\ Names(PayloadFields("Add")) = <<"from", "to", "roles">>
    /\ Names(PayloadFields("Remove")) = <<"from", "to">>

\* no two fields of the definition under name n have the same name
DistinctFieldNames(tm, n) ==
    \A i, j \in DOMAIN fieldsOf(Lookup(tm, n)) :
        i # j => fieldsOf(Lookup(tm, n))[i].name # fieldsOf(Lookup(tm, n))[j].name

\* C22 (as claimed): after augmentation the Mutation type has no two fields of
\* the same name: a relationship mutation whose name exists already, written
\* by the user or generated earlier in the same run, is not generated again
C22_MutationNamesUnique ==
    (call = "first" /\ pc = "done") => DistinctFieldNames(typeMap, "Mutation")

\* the stages every entry of the loop goes through, and the stages after the loop
PerType ==
    <<"augmentType", "possiblyAddQuery", "possiblyAddOrderingEnum", "possiblyAddTypeInput",
      "possiblyAddFilterInput", "possiblyAddTypeMutations", "handleRelationFields">>
AfterLoop == <<"augmentQueryArguments", "addDirectiveDeclarations", "done">>
RootNames(tm) == {n \in {"Query", "Mutation", "Subscription"} : Has(tm, n)}

\* one step of a run whose stages before the loop are the three of prelude, in
\* that order: a stage hands over to the next one, the loop visits the entries
\* one by one and takes every entry through the stages of PerType, a passed
\* over entry aside, and a stage that throws ends the run
OrderedStep(prelude) ==
    \/ pc' = "failed"
    \/ \E k \in 1..2 : pc = prelude[k] /\ pc' = prelude[k + 1]
    \/ pc = prelude[3] /\ pc' = "augmentType" /\ idx' = 1
    \/ \E k \in 1..6 : pc = PerType[k] /\ pc' = PerType[k + 1] /\ idx' = idx
    \/ /\ pc = "handleRelationFields" \/ (pc = "augmentType" /\ isTemporalType(entryName))
       /\ idx' = idx + 1
       /\ pc' = IF idx < Len(entries) THEN "augmentType" ELSE "augmentQueryArguments"
    \/ \E k \in 1..2 : pc = AfterLoop[k] /\ pc' = AfterLoop[k + 1] /\ idx' = idx

Running == pc \notin {"done", "failed", "resolved", "augmentResolversFailed"}

\* C23 (as claimed): the stages run as relationship normalization, root-type
\* seeding, temporal substitution, the per-type stages in their order for each
\* entry, query-argument augmentation, directive declarations; and when
\* relationship normalization starts no root type has been inserted yet
C23_PipelineOrder ==
    [][Running =>
        /\ OrderedStep(<<"addRelationTypeDirectives", "initializeOperationTypes", "addTemporalTypes">>)
        /\ (pc' = "addRelationTypeDirectives" /\ call = "first")
               => RootNames(typeMap') = RootNames(typeMap0)]_vars

\* C23 (amended): the stages run as root-type seeding, relationship
\* normalization, temporal substitution, the per-type stages in their order for
\* each entry, query-argument augmentation, directive declarations; and the
\* root types are all in the map when relationship normalization starts: no
\* later stage inserts or removes one
C23_PipelineOrderSeedingFirst ==
    [][Running =>
        /\ OrderedStep(<<"initializeOperationTypes", "addRelationTypeDirectives", "addTemporalTypes">>)
        /\ pc # "initializeOperationTypes" => RootNames(typeMap') = RootNames(typeMap)]_vars

C23_Witness ==
    /\ call = "first" /\ pc = "done"
    /\ input.rel = "type"
    /\ RootNames(typeMap) # RootNames(typeMap0)
    /\ Len(entries) >= 4 /\ idx = Len(entries) + 1

\* the letters A to Z
UppercaseLetters == {UpperOf[c] : c \in DOMAIN UpperOf}

\* the default name as stated: the characters upper-cased, an underscore before
\* each one that was an uppercase letter, the first character aside
StatedDefaultName(cs) ==
    JoinChars([i \in DOMAIN cs |->
        IF cs[i] \in UppercaseLetters /\ i > 1 THEN "_" \o cs[i] ELSE toUpperCase(cs[i])])

\* the relationship types of the input the user gave no name
Unnamed0 ==
    {n \in RelationshipTypes0 :
        \/ ~hasDirective(typeMap0.defs[n].directives, "relation")
        \/ "name" \notin DOMAIN getDirective(typeMap0.defs[n].directives, "relation").args}

MarkerName(n) == getDirective(typeMap.defs[n].directives, "relation").args.name

\* C24: a relationship type the user gave no name is named by its type name
\* upper-cased, with an underscore before every character that was an uppercase
\* letter other than the first and before no other character
C24_DefaultRelationName ==
    (call = "first" /\ pc = "done") =>
        \A n \in Unnamed0 : MarkerName(n) = StatedDefaultName(CharsOf(n))

\* no two arguments of the field have the same name
DistinctArgumentNames(field) ==
    \A i, j \in DOMAIN field.arguments :
        i # j => field.arguments[i].name # field.arguments[j].name

\* C25: after one run no field of the Query type and no field of a node type
\* of the input has two arguments of the same name: first, offset, orderBy and
\* filter are added only to a field that has no argument of that name
C25_ArgumentNamesUnique ==
    (call = "first" /\ pc = "done") =>
        \A n \in {"Query"} \cup (NodeTypes0 \ SynthesizableNames) :
            \A f \in Range(fieldsOf(Lookup(typeMap, n))) : DistinctArgumentNames(f)

\* the type names the definitions of a type map refer to: the types of their
\* fields and of the arguments of their fields
References(tm) ==
    UNION {{f.type.name} \cup {a.type.name : a \in Range(f.arguments)} :
            f \in UNION {Range(tm.defs[n].fields) : n \in DOMAIN tm.defs}}

BuiltInScalars == {"ID", "String", "Int", "Float", "Boolean"}

\* the names the run has brought in: referred to after it and not before it
NewReferences == References(typeMap) \ (References(typeMap0) \cup BuiltInScalars)

\* C26: when the run completes, every type name a generated or rewritten field,
\* argument or type refers to is a key of the augmented type map
C26_GeneratedNamesResolve ==
    (call = "first" /\ pc = "done") => \A n \in NewReferences : Has(typeMap, n)

\* C27: every entry of the resolver map the caller handed over, an entry under
\* the name of an interface type included, is in the returned map with the
\* same function
C27_UserResolversKept ==
    pc = "resolved" =>
        \A t \in DOMAIN resolvers0.types : \A f \in DOMAIN resolvers0.types[t] :
            /\ t \in DOMAIN resolvers.types
            /\ f \in DOMAIN resolvers.types[t]
            /\ resolvers.types[t][f] = resolvers0.types[t][f]

====
